---- MODULE Spec2Model ----
(***************************************************************************)
(* Colony / Plot / User / Role store of the plots backend and the request  *)
(* handlers that read and write it.  Every `await` on a store call is a    *)
(* suspension point: a handler is a chain of actions, one per store call,  *)
(* and the chains of two requests interleave.                              *)
(***************************************************************************)
EXTENDS Integers, FiniteSets, Sequences, TLC

\* ---------------------------------------------------------------- bounds
MaxColonies == 2      \* Colony documents ever created in one behaviour
MaxPlots == 2         \* Plot documents ever created in one behaviour
MaxRoles == 2         \* Role documents ever created in one behaviour
MaxUsers == 2         \* User documents ever created in one behaviour
MaxProperties == 2    \* Property documents ever created in one behaviour
MaxDigits == 16       \* digits in a run of digits of a phone input
MaxTotal == 25        \* records that match the query of a list request
MaxLimit == 10        \* page size of a list request
MaxPage == 4          \* page number of a list request
MaxItems == 2         \* members of an object, elements of an array of a request body
MaxCopies == 2        \* documents of one identity in the store a seeding run starts on
MaxRuns == 2          \* runs of a seeding routine in one behaviour

\* ------------------------------------------------------ program constants
MinArea == 50
MaxArea == 100000
MinPrice == 100
MaxPrice == 50000
MinRoadWidth == 0
MaxRoadWidth == 200

PlotStatuses == {"available", "blocked", "sold", "reserved"}
Facings == {"north", "south", "east", "west",
            "northeast", "northwest", "southeast", "southwest"}

\* ----------------------------------------------------------- absent values
NoNum == 0 - 1        \* a numeric field the document / body does not carry
NoStr == "absent"     \* a string field the document / body does not carry
NoId == 0             \* a reference the document / body does not carry
BadId == 0 - 2        \* an identifier that is not 24 hexadecimal digits
NoTokens == {NoStr}   \* a permissions field the body does not carry

\* Two clients whose requests may overlap.
Requests == {"r1", "r2"}

ColonyIds == 1..MaxColonies
PlotIds == 1..MaxPlots
RoleIds == 1..MaxRoles
UserIds == 1..MaxUsers
PropertyIds == 1..MaxProperties

VARIABLES
  colonies,     \* Colony collection: id -> document (live = FALSE: no such document)
  plots,        \* Plot collection: id -> document
  nextColony,   \* next fresh Colony _id
  nextPlot,     \* next fresh Plot _id
  roles,        \* Role collection: id -> document
  users,        \* User collection: id -> document
  nextRole,     \* next fresh Role _id
  nextUser,     \* next fresh User _id
  properties,   \* Property collection: id -> document
  nextProperty, \* next fresh Property _id
  pc,           \* per client: the store call its handler is suspended at
  arg,          \* per client: req.params.id and req.body of the request in flight
  loc,          \* per client: the handler's local variables
  resp,         \* per client: the response of the request (read when pc = "done")
  call,         \* a call of a function of the program: its name and its arguments
  result        \* what the call returned (NoResult: it has not returned)

plotVars == <<colonies, plots, nextColony, nextPlot>>
userVars == <<roles, users, nextRole, nextUser>>
callVars == <<call, result>>
propVars == <<properties, nextProperty>>
vars == <<colonies, plots, nextColony, nextPlot, roles, users, nextRole, nextUser,
          properties, nextProperty, pc, arg, loc, resp, call, result>>

\* ------------------------------------------------------------- documents
NoCounts == [totalPlots |-> 0, availablePlots |-> 0, soldPlots |-> 0, blockedPlots |-> 0]

NoColony == [live |-> FALSE, totalPlots |-> 0, availablePlots |-> 0,
             soldPlots |-> 0, blockedPlots |-> 0]

NoPlot == [live |-> FALSE, plotNumber |-> NoStr, colony |-> NoId, area |-> NoNum,
           pricePerSqFt |-> NoNum, totalPrice |-> NoNum, status |-> NoStr,
           facing |-> NoStr, roadWidth |-> NoNum]

\* req.body: the fields of every body the model sends, absent unless set
NoBody == [plotNumber |-> NoStr, colony |-> NoId, area |-> NoNum,
           pricePerSqFt |-> NoNum, totalPrice |-> NoNum, status |-> NoStr,
           facing |-> NoStr,
           totalPlots |-> NoNum, availablePlots |-> NoNum,
           soldPlots |-> NoNum, blockedPlots |-> NoNum,
           email |-> NoStr, role |-> NoId,
           name |-> NoStr, permissions |-> NoTokens, roadWidth |-> NoNum]

NoRole == [live |-> FALSE, permissions |-> {}]

NoUser == [live |-> FALSE, email |-> NoStr, role |-> NoId]

NoProperty == [live |-> FALSE, name |-> NoStr, colony |-> NoId]

NoArg == [op |-> "none", id |-> NoId, body |-> NoBody]

NoCall == [fn |-> "none"]

NoResult == [type |-> "none"]

\* plot, colony: the documents the handler holds; loaded: the counters of the
\* Colony document as Colony.findById returned it; snap: the counters computed
\* from the plots read.  quiet records, for the save of the counters, whether
\* another request wrote a Plot of the colony since the plots were read
\* (quiet = FALSE).
NoLoc == [plot |-> NoId, colony |-> NoId, loaded |-> NoCounts, snap |-> NoCounts,
          quiet |-> TRUE]

\* success: the value of the body's success member (FALSE when it has none);
\* keys: the members of the body
NoResp == [status |-> 0, message |-> "none", errors |-> {}, success |-> FALSE,
           keys |-> {}]

CountersOf(doc) ==
  [totalPlots |-> doc.totalPlots, availablePlots |-> doc.availablePlots,
   soldPlots |-> doc.soldPlots, blockedPlots |-> doc.blockedPlots]

\* Plot.find({ colony: c }) on a Plot collection ps
PlotsOfColony(ps, c) == {p \in PlotIds : ps[p].live /\ ps[p].colony = c}

\* ------------------------------------------------------------ pure rules

\* JavaScript truthiness of a numeric field (`this.area && this.pricePerSqFt`)
Truthy(n) == n # NoNum /\ n # 0

\* A save hook that derives nothing
PreSaveKeep(doc) == doc

\* plotSchema.pre('save'): totalPrice := area * pricePerSqFt
PreSave(doc) ==
  IF Truthy(doc.area) /\ Truthy(doc.pricePerSqFt)
  THEN [doc EXCEPT !.totalPrice = doc.area * doc.pricePerSqFt]
  ELSE doc

\* A recount that takes every plot read for an available one
PlotCountsAllAvailable(ps, c) ==
  LET read == PlotsOfColony(ps, c)
  IN [totalPlots |-> Cardinality(read),
      availablePlots |-> Cardinality(read),
      soldPlots |-> Cardinality({p \in read : ps[p].status = "sold"}),
      blockedPlots |-> Cardinality({p \in read : ps[p].status = "blocked"})]

\* A recount whose total leaves out the plots of a status it does not count
PlotCountsOfCounted(ps, c) ==
  LET read == PlotsOfColony(ps, c)
  IN [totalPlots |-> Cardinality({p \in read : ps[p].status # "reserved"}),
      availablePlots |-> Cardinality({p \in read : ps[p].status = "available"}),
      soldPlots |-> Cardinality({p \in read : ps[p].status = "sold"}),
      blockedPlots |-> Cardinality({p \in read : ps[p].status = "blocked"})]

\* updatePlotCounts, the counters computed from the plots read:
\* plots.length and the three status filters
PlotCounts(ps, c) ==
  LET read == PlotsOfColony(ps, c) IN
  [totalPlots |-> Cardinality(read),
   availablePlots |-> Cardinality({p \in read : ps[p].status = "available"}),
   soldPlots |-> Cardinality({p \in read : ps[p].status = "sold"}),
   blockedPlots |-> Cardinality({p \in read : ps[p].status = "blocked"})]

\* `this.totalPlots = ...; await this.save()` on the Colony document that
\* Colony.findById loaded: Document.save() sends only the paths whose assigned
\* value differs from the value the document was loaded with.
SaveCounts(stored, loaded, snap) ==
  [stored EXCEPT
     !.totalPlots = IF snap.totalPlots # loaded.totalPlots
                    THEN snap.totalPlots ELSE @,
     !.availablePlots = IF snap.availablePlots # loaded.availablePlots
                        THEN snap.availablePlots ELSE @,
     !.soldPlots = IF snap.soldPlots # loaded.soldPlots
                   THEN snap.soldPlots ELSE @,
     !.blockedPlots = IF snap.blockedPlots # loaded.blockedPlots
                      THEN snap.blockedPlots ELSE @]

\* A duplicate check that looks at the plot number alone
DuplicateNumber(ps, number, c) ==
  \E p \in PlotIds : ps[p].live /\ ps[p].plotNumber = number

\* Plot.findOne({ plotNumber, colony }) of the create handler
DuplicatePlot(ps, number, c) ==
  \E p \in PlotIds : ps[p].live /\ ps[p].plotNumber = number /\ ps[p].colony = c

\* A count that sees no plot
PlotCountNone(ps, c) == 0

\* Plot.countDocuments({ colony: req.params.id }) of the colony delete handler
PlotCount(ps, c) == Cardinality(PlotsOfColony(ps, c))

\* A status test that takes no plot for a sold one
IsSoldNever(doc) == FALSE

\* `plot.status === 'sold'` of the plot delete handler
IsSold(doc) == doc.status = "sold"

\* sanitizers.isValidObjectId.  Where no validator guards a route, an
\* identifier that fails this test reaches findById, findByIdAndUpdate or
\* findOne, whose cast of it rejects; the handler's catch answers 500.
IsValidObjectId(id) == id # NoId /\ id # BadId

\* One validator of a chain: the record it adds to the result when broken
Rule(field, location, message, value, broken) ==
  [field |-> field, location |-> location, message |-> message, value |-> value,
   broken |-> broken]

\* validations.plot.create (the rules on the fields the model carries); a
\* chain runs all its validators, an absent field breaks each of them (the
\* messages are written without their currency signs)
PlotCreateRules(b) ==
  {Rule("plotNumber", "body", "Plot number must be between 1 and 50 characters",
        b.plotNumber, b.plotNumber = NoStr),
   Rule("plotNumber", "body",
        "Plot number can only contain letters, numbers, hyphens, slashes, and spaces",
        b.plotNumber, b.plotNumber = NoStr),
   Rule("colony", "body", "Colony ID is required", b.colony, b.colony = NoId),
   Rule("colony", "body", "Invalid colony ID format", b.colony, ~IsValidObjectId(b.colony)),
   Rule("area", "body", "Area must be a number", b.area, b.area = NoNum),
   Rule("area", "body", "Area must be between 50 and 100,000 square feet", b.area,
        b.area = NoNum \/ b.area < MinArea \/ b.area > MaxArea),
   Rule("pricePerSqFt", "body", "Price per sq ft must be a number", b.pricePerSqFt,
        b.pricePerSqFt = NoNum),
   Rule("pricePerSqFt", "body", "Price per sq ft must be between 100 and 50,000",
        b.pricePerSqFt,
        b.pricePerSqFt = NoNum \/ b.pricePerSqFt < MinPrice \/ b.pricePerSqFt > MaxPrice),
   Rule("facing", "body", "Invalid facing direction", b.facing, b.facing \notin Facings),
   Rule("status", "body", "Invalid plot status", b.status,
        b.status # NoStr /\ b.status \notin PlotStatuses),
   Rule("roadWidth", "body", "Road width must be between 0 and 200 feet", b.roadWidth,
        b.roadWidth # NoNum /\ (b.roadWidth < MinRoadWidth \/ b.roadWidth > MaxRoadWidth))}

\* validations.params.objectId
ParamRules(id) == {Rule("id", "params", "Invalid ID format", id, ~IsValidObjectId(id))}

\* validations.params.objectId and validations.plot.update: every body rule is
\* optional()
PlotUpdateRules(id, b) ==
  ParamRules(id) \cup
  {Rule("area", "body", "Area must be between 50 and 100,000 square feet", b.area,
        b.area # NoNum /\ (b.area < MinArea \/ b.area > MaxArea)),
   Rule("pricePerSqFt", "body", "Price per sq ft must be between 100 and 50,000",
        b.pricePerSqFt,
        b.pricePerSqFt # NoNum /\ (b.pricePerSqFt < MinPrice \/ b.pricePerSqFt > MaxPrice)),
   Rule("status", "body", "Invalid plot status", b.status,
        b.status # NoStr /\ b.status \notin PlotStatuses)}

\* A result that keeps the record of one broken rule only
ErrorsFirst(rules) ==
  LET broken == {x \in rules : x.broken}
  IN IF broken = {} THEN {}
     ELSE LET x == CHOOSE y \in broken : TRUE
          IN {[field |-> x.field, message |-> x.message, value |-> x.value,
               location |-> x.location]}

\* handleValidationErrors: errors.array() mapped to {field, message, value,
\* location}, one record for every broken rule
Errors(rules) ==
  {[field |-> x.field, message |-> x.message, value |-> x.value,
    location |-> x.location] : x \in {y \in rules : y.broken}}

ValidPlotCreate(b) == Errors(PlotCreateRules(b)) = {}

ValidPlotUpdate(id, b) == Errors(PlotUpdateRules(id, b)) = {}

\* Schema validation run by Plot.create before the pre('save') hook:
\* the required paths and the enums
SchemaValidPlot(b) ==
  /\ b.plotNumber # NoStr /\ b.colony # NoId
  /\ b.area # NoNum /\ b.pricePerSqFt # NoNum
  /\ b.totalPrice # NoNum
  /\ b.facing \in Facings
  /\ (b.status = NoStr \/ b.status \in PlotStatuses)

\* The document Plot.create builds from the request body (schema defaults applied)
NewPlot(b) ==
  [live |-> TRUE, plotNumber |-> b.plotNumber, colony |-> b.colony, area |-> b.area,
   pricePerSqFt |-> b.pricePerSqFt, totalPrice |-> b.totalPrice,
   status |-> IF b.status = NoStr THEN "available" ELSE b.status,
   facing |-> b.facing,
   roadWidth |-> IF b.roadWidth = NoNum THEN 0 ELSE b.roadWidth]

\* The update validators of findByIdAndUpdate(..., { runValidators: true }):
\* the schema validators of the paths the update sets (of the paths the model
\* carries, the enums of status and facing; area, pricePerSqFt and roadWidth
\* have no schema range)
SchemaValidUpdate(b) ==
  /\ (b.facing = NoStr \/ b.facing \in Facings)
  /\ (b.status = NoStr \/ b.status \in PlotStatuses)

\* Plot.findByIdAndUpdate(id, req.body): the paths the body carries are set,
\* no save hook runs
UpdatedPlot(doc, b) ==
  [doc EXCEPT
     !.plotNumber = IF b.plotNumber # NoStr THEN b.plotNumber ELSE @,
     !.colony = IF b.colony # NoId THEN b.colony ELSE @,
     !.area = IF b.area # NoNum THEN b.area ELSE @,
     !.pricePerSqFt = IF b.pricePerSqFt # NoNum THEN b.pricePerSqFt ELSE @,
     !.totalPrice = IF b.totalPrice # NoNum THEN b.totalPrice ELSE @,
     !.status = IF b.status # NoStr THEN b.status ELSE @,
     !.facing = IF b.facing # NoStr THEN b.facing ELSE @,
     !.roadWidth = IF b.roadWidth # NoNum THEN b.roadWidth ELSE @]

\* The counters of a request body laid over the counters of a document
BodyCounters(doc, b) ==
  [doc EXCEPT
     !.totalPlots = IF b.totalPlots # NoNum THEN b.totalPlots ELSE @,
     !.availablePlots = IF b.availablePlots # NoNum THEN b.availablePlots ELSE @,
     !.soldPlots = IF b.soldPlots # NoNum THEN b.soldPlots ELSE @,
     !.blockedPlots = IF b.blockedPlots # NoNum THEN b.blockedPlots ELSE @]

\* Colony.create({ ...req.body, createdBy }): the body is spread into the
\* document, the schema defaults (0) fill the counters the body does not carry
NewColony(b) == BodyCounters([NoColony EXCEPT !.live = TRUE], b)

\* Colony.findByIdAndUpdate(req.params.id, req.body)
UpdatedColony(doc, b) == BodyCounters(doc, b)

\* User.findOne({ email }) of the user create handler
EmailTaken(us, email) == \E u \in UserIds : us[u].live /\ us[u].email = email

\* A lookup that finds no user of the role
RoleInUseNever(us, role) == FALSE

\* User.findOne({ role: role._id }) of the role delete handler
RoleInUse(us, role) == \E u \in UserIds : us[u].live /\ us[u].role = role

\* The body validators of POST /users (the rules on the fields the model carries)
ValidUserCreate(b) == b.email # NoStr /\ b.role # NoId

\* User.create({ name, email, password, phone, role, address, createdBy })
NewUser(b) == [live |-> TRUE, email |-> b.email, role |-> b.role]

\* User.findByIdAndUpdate(id, { name, phone, role, address, isActive }): a path
\* whose value is undefined is left out of the update
UpdatedUser(doc, b) == [doc EXCEPT !.role = IF b.role # NoId THEN b.role ELSE @]

\* ------------------------------------------------------------ sanitizers
\* JavaScript values handed to and returned by the sanitizers: a string is the
\* sequence of its characters
JsString(chars) == [type |-> "string", chars |-> chars]

JsNull == [type |-> "null", chars |-> <<>>]

JsNumber == [type |-> "number", chars |-> <<>>]

Digits == {"0", "1", "2", "3", "4", "5", "6", "7", "8", "9"}

\* What /\D/ does not match
IsDigit(ch) == ch \in Digits

\* A sanitizer that puts "+" before every run of 10 to 15 digits
sanitizePhonePlus(phone) ==
  IF phone.type # "string" THEN JsNull
  ELSE LET digitsOnly == SelectSeq(phone.chars, IsDigit)
       IN IF Len(digitsOnly) >= 10 /\ Len(digitsOnly) <= 15
          THEN JsString(<<"+">> \o digitsOnly)
          ELSE JsNull

\* sanitizers.sanitizePhone
sanitizePhone(phone) ==
  IF phone.type # "string" THEN JsNull
  ELSE LET digitsOnly == SelectSeq(phone.chars, IsDigit)
       IN IF Len(digitsOnly) = 10
          THEN JsString(<<"+", "9", "1">> \o digitsOnly)
          ELSE IF Len(digitsOnly) >= 10 /\ Len(digitsOnly) <= 15
          THEN JsString(<<"+">> \o digitsOnly)
          ELSE JsNull

\* ------------------------------------------------------------- list pages
\* A page count that rounds down
PagesFloor(total, limit) == total \div limit

\* `Math.ceil(total / limit)`
Pages(total, limit) ==
  IF total % limit = 0 THEN total \div limit ELSE total \div limit + 1

\* `.limit(limit).skip((page - 1) * limit)` on the sorted result of the query
PageOf(sorted, page, limit) ==
  LET skip == (page - 1) * limit
      last == IF skip + limit < Len(sorted) THEN skip + limit ELSE Len(sorted)
  IN SubSeq(sorted, skip + 1, last)

\* The list handlers: the page of the sorted matches and the pagination block
ListPage(sorted, page, limit) ==
  [type |-> "page",
   records |-> PageOf(sorted, page, limit),
   pagination |-> [current |-> page, pages |-> Pages(Len(sorted), limit),
                   total |-> Len(sorted)]]

\* ------------------------------------------------- requests in flight
\* res.status(status).json({ success, message, data }) for a status below 300,
\* res.status(status).json({ success: false, message }) for the others
Response(status, message) ==
  [status |-> status, message |-> message, errors |-> {},
   success |-> status < 300,
   keys |-> IF status < 300 THEN {"success", "message", "data"}
                            ELSE {"success", "message"}]

\* r's handler has sent its response
Done(r, status, message) ==
  /\ pc' = [pc EXCEPT ![r] = "done"]
  /\ resp' = [resp EXCEPT ![r] = Response(status, message)]

\* handleValidationErrors has answered r's request with the records errs
Rejected(r, errs) ==
  /\ pc' = [pc EXCEPT ![r] = "done"]
  /\ resp' = [resp EXCEPT ![r] = [status |-> 400, message |-> "Validation failed",
                                   errors |-> errs, success |-> FALSE,
                                   keys |-> {"success", "message", "errors",
                                             "timestamp"}]]

\* r's handler has sent res.json({ success: true, message })
DoneBare(r, message) ==
  /\ pc' = [pc EXCEPT ![r] = "done"]
  /\ resp' = [resp EXCEPT ![r] = [status |-> 200, message |-> message, errors |-> {},
                                   success |-> TRUE,
                                   keys |-> {"success", "message"}]]

\* r's handler starts on request (op, id, b)
Accept(r, op, id, b) == arg' = [arg EXCEPT ![r] = [op |-> op, id |-> id, body |-> b]]

\* What a Plot write of another request does to the bookkeeping of q's counter
\* save: P are the colonies whose plots were written
Disturbed(q, P) ==
  [loc[q] EXCEPT !.quiet = @ /\ ~(pc[q] = "hSave" /\ loc[q].colony \in P)]

\* loc after a step of r that writes plots of the colonies P and leaves r's
\* locals as mine
LocAfter(r, mine, P) ==
  [q \in Requests |-> IF q = r THEN mine ELSE Disturbed(q, P)]

\* ------------------------------------------------------------------ Init
\* The store holds no document, no request is in flight
EmptyStore ==
  /\ colonies = [c \in ColonyIds |-> NoColony]
  /\ plots = [p \in PlotIds |-> NoPlot]
  /\ nextColony = 1
  /\ nextPlot = 1
  /\ pc = [r \in Requests |-> "idle"]
  /\ arg = [r \in Requests |-> NoArg]
  /\ loc = [r \in Requests |-> NoLoc]
  /\ roles = [x \in RoleIds |-> NoRole]
  /\ users = [u \in UserIds |-> NoUser]
  /\ nextRole = 1
  /\ nextUser = 1
  /\ properties = [x \in PropertyIds |-> NoProperty]
  /\ nextProperty = 1
  /\ resp = [r \in Requests |-> NoResp]

Init ==
  /\ EmptyStore
  /\ call = NoCall
  /\ result = NoResult

\* The client has read the response: the connection is free for a new request
ResponseSent(r) ==
  /\ pc[r] = "done"
  /\ UNCHANGED <<userVars, callVars, propVars>>
  /\ pc' = [pc EXCEPT ![r] = "idle"]
  /\ arg' = [arg EXCEPT ![r] = NoArg]
  /\ loc' = [loc EXCEPT ![r] = NoLoc]
  /\ resp' = [resp EXCEPT ![r] = NoResp]
  /\ UNCHANGED <<colonies, plots, nextColony, nextPlot>>

\* ------------------------------------------------- POST /plots (create plot)

\* The validation middlewares, then `await Colony.findById(req.body.colony)`
PlotCreateFindColony(r, b) ==
  /\ pc[r] = "idle"
  /\ UNCHANGED <<userVars, callVars, propVars>>
  /\ Accept(r, "createPlot", NoId, b)
  /\ UNCHANGED <<colonies, plots, nextColony, nextPlot, loc>>
  /\ IF ~ValidPlotCreate(b) THEN Rejected(r, Errors(PlotCreateRules(b)))
     ELSE IF ~colonies[b.colony].live THEN Done(r, 400, "Colony not found")
     ELSE /\ pc' = [pc EXCEPT ![r] = "cDup"]
          /\ UNCHANGED resp

\* `await Plot.findOne({ plotNumber, colony })`
PlotCreateFindDuplicate(r) ==
  /\ pc[r] = "cDup"
  /\ UNCHANGED <<userVars, callVars, propVars>>
  /\ UNCHANGED <<colonies, plots, nextColony, nextPlot, arg, loc>>
  /\ IF DuplicatePlot(plots, arg[r].body.plotNumber, arg[r].body.colony)
     THEN Done(r, 400, "Plot number already exists in this colony")
     ELSE /\ pc' = [pc EXCEPT ![r] = "cInsert"]
          /\ UNCHANGED resp

\* `await Plot.create(plotData)` up to the insert: schema validation, the
\* pre('save') hook, the insert.  A validation error is caught by the handler.
PlotCreateInsert(r) ==
  /\ pc[r] = "cInsert"
  /\ UNCHANGED <<userVars, callVars, propVars>>
  /\ UNCHANGED <<colonies, nextColony, arg>>
  /\ LET b == arg[r].body IN
     IF ~SchemaValidPlot(b)
     THEN /\ Done(r, 500, "Server error")
          /\ UNCHANGED <<plots, nextPlot, loc>>
     ELSE /\ nextPlot <= MaxPlots
          /\ plots' = [plots EXCEPT ![nextPlot] = PreSave(NewPlot(b))]
          /\ nextPlot' = nextPlot + 1
          /\ pc' = [pc EXCEPT ![r] = "hFind"]
          /\ loc' = LocAfter(r, [loc[r] EXCEPT !.plot = nextPlot], {b.colony})
          /\ UNCHANGED resp

\* plotSchema.post('save'): `await Colony.findById(this.colony)`
PostSaveFindColony(r) ==
  /\ pc[r] = "hFind"
  /\ UNCHANGED <<userVars, callVars, propVars>>
  /\ UNCHANGED <<colonies, plots, nextColony, nextPlot, arg, resp>>
  /\ LET c == arg[r].body.colony IN
     IF colonies[c].live
     THEN /\ pc' = [pc EXCEPT ![r] = "hRead"]
          /\ loc' = [loc EXCEPT ![r].colony = c, ![r].loaded = CountersOf(colonies[c])]
     ELSE /\ pc' = [pc EXCEPT ![r] = "cRespond"]
          /\ UNCHANGED loc

\* updatePlotCounts: `await Plot.find({ colony: this._id })` and the four
\* assignments that follow it
UpdatePlotCountsFind(r) ==
  /\ pc[r] = "hRead"
  /\ UNCHANGED <<userVars, callVars, propVars>>
  /\ pc' = [pc EXCEPT ![r] = "hSave"]
  /\ loc' = [loc EXCEPT ![r].snap = PlotCounts(plots, loc[r].colony)]
  /\ UNCHANGED <<colonies, plots, nextColony, nextPlot, arg, resp>>

\* updatePlotCounts: `await this.save()`.  Saving a document that is no longer
\* stored rejects; the rejection leaves the hook and Plot.create and reaches
\* the handler's catch.
UpdatePlotCountsSave(r) ==
  /\ pc[r] = "hSave"
  /\ UNCHANGED <<userVars, callVars, propVars>>
  /\ UNCHANGED <<plots, nextColony, nextPlot, arg>>
  /\ LET c == loc[r].colony IN
     IF colonies[c].live
     THEN /\ colonies' = [colonies EXCEPT
                            ![c] = SaveCounts(colonies[c], loc[r].loaded, loc[r].snap)]
          /\ pc' = [pc EXCEPT ![r] = "cRespond"]
          /\ UNCHANGED <<loc, resp>>
     ELSE /\ Done(r, 500, "Server error")
          /\ UNCHANGED <<colonies, loc>>

\* `await plot.populate(...)` and sendSuccess(res, 201, ...)
PlotCreateRespond(r) ==
  /\ pc[r] = "cRespond"
  /\ UNCHANGED <<userVars, callVars, propVars>>
  /\ Done(r, 201, "Plot created successfully")
  /\ UNCHANGED <<colonies, plots, nextColony, nextPlot, arg, loc>>

\* An update that recounts the plots of the colony it writes to
PlotUpdateRecounts(r, id, b) ==
  /\ pc[r] = "idle"
  /\ UNCHANGED <<userVars, callVars, propVars>>
  /\ Accept(r, "updatePlot", id, b)
  /\ UNCHANGED <<nextColony, nextPlot>>
  /\ IF ~ValidPlotUpdate(id, b)
     THEN /\ Rejected(r, Errors(PlotUpdateRules(id, b)))
          /\ UNCHANGED <<colonies, plots, loc>>
     ELSE IF ~SchemaValidUpdate(b)
     THEN /\ Done(r, 500, "Server error")
          /\ UNCHANGED <<colonies, plots, loc>>
     ELSE IF ~plots[id].live
     THEN /\ Done(r, 404, "Plot not found")
          /\ UNCHANGED <<colonies, plots, loc>>
     ELSE /\ plots' = [plots EXCEPT ![id] = UpdatedPlot(plots[id], b)]
          /\ colonies' = [c \in ColonyIds |->
                            IF colonies[c].live /\ c = plots'[id].colony
                            THEN [live |-> TRUE,
                                  totalPlots |-> PlotCounts(plots', c).totalPlots,
                                  availablePlots |-> PlotCounts(plots', c).availablePlots,
                                  soldPlots |-> PlotCounts(plots', c).soldPlots,
                                  blockedPlots |-> PlotCounts(plots', c).blockedPlots]
                            ELSE colonies[c]]
          /\ loc' = LocAfter(r, loc[r], {plots[id].colony, plots'[id].colony})
          /\ Done(r, 200, "Plot updated successfully")

\* ------------------------------------------------ PUT /plots/:id (update plot)
\* The validation middlewares, then
\* `await Plot.findByIdAndUpdate(req.params.id, req.body, ...)`
PlotUpdate(r, id, b) ==
  /\ pc[r] = "idle"
  /\ UNCHANGED <<userVars, callVars, propVars>>
  /\ Accept(r, "updatePlot", id, b)
  /\ UNCHANGED <<colonies, nextColony, nextPlot>>
  /\ IF ~ValidPlotUpdate(id, b)
     THEN /\ Rejected(r, Errors(PlotUpdateRules(id, b)))
          /\ UNCHANGED <<plots, loc>>
     ELSE IF ~SchemaValidUpdate(b)
     THEN /\ Done(r, 500, "Server error")
          /\ UNCHANGED <<plots, loc>>
     ELSE IF ~plots[id].live
     THEN /\ Done(r, 404, "Plot not found")
          /\ UNCHANGED <<plots, loc>>
     ELSE /\ plots' = [plots EXCEPT ![id] = UpdatedPlot(plots[id], b)]
          /\ loc' = LocAfter(r, loc[r], {plots[id].colony, plots'[id].colony})
          /\ Done(r, 200, "Plot updated successfully")

\* --------------------------------------------- DELETE /plots/:id (delete plot)
\* `await Plot.findById(req.params.id)` and the checks on the document read
PlotDeleteFind(r, id) ==
  /\ pc[r] = "idle"
  /\ UNCHANGED <<userVars, callVars, propVars>>
  /\ Accept(r, "deletePlot", id, NoBody)
  /\ UNCHANGED <<colonies, plots, nextColony, nextPlot>>
  /\ IF ~IsValidObjectId(id)
     THEN /\ Rejected(r, Errors(ParamRules(id)))
          /\ UNCHANGED loc
     ELSE IF ~plots[id].live
     THEN /\ Done(r, 404, "Plot not found")
          /\ UNCHANGED loc
     ELSE IF IsSold(plots[id])
     THEN /\ Done(r, 400, "Cannot delete sold plot")
          /\ UNCHANGED loc
     ELSE /\ pc' = [pc EXCEPT ![r] = "dDelete"]
          /\ loc' = [loc EXCEPT ![r].plot = id, ![r].colony = plots[id].colony]
          /\ UNCHANGED resp

\* `await plot.deleteOne()`: the document is removed.  The schema registers its
\* recount hook on 'remove'; deleteOne() runs the 'deleteOne' hooks, of which
\* the schema has none.
PlotDeleteRemove(r) ==
  /\ pc[r] = "dDelete"
  /\ UNCHANGED <<userVars, callVars, propVars>>
  /\ plots' = [plots EXCEPT ![loc[r].plot] = NoPlot]
  /\ loc' = LocAfter(r, loc[r],
                     IF plots[loc[r].plot].live THEN {plots[loc[r].plot].colony} ELSE {})
  /\ Done(r, 200, "Plot deleted successfully")
  /\ UNCHANGED <<colonies, nextColony, nextPlot, arg>>

\* --------------------------------------------- POST /colonies (create colony)
\* The body validators pass (name and address are given), then
\* `await Colony.create({ ...req.body, createdBy })`
ColonyCreate(r, b) ==
  /\ pc[r] = "idle"
  /\ UNCHANGED <<userVars, callVars, propVars>>
  /\ nextColony <= MaxColonies
  /\ Accept(r, "createColony", nextColony, b)
  /\ colonies' = [colonies EXCEPT ![nextColony] = NewColony(b)]
  /\ nextColony' = nextColony + 1
  /\ Done(r, 201, "Colony created successfully")
  /\ UNCHANGED <<plots, nextPlot, loc>>

\* ------------------------------------------ PUT /colonies/:id (update colony)
ColonyUpdate(r, id, b) ==
  /\ pc[r] = "idle"
  /\ UNCHANGED <<userVars, callVars, propVars>>
  /\ Accept(r, "updateColony", id, b)
  /\ UNCHANGED <<plots, nextColony, nextPlot>>
  /\ IF ~IsValidObjectId(id)
     THEN /\ Done(r, 500, "Server error")
          /\ UNCHANGED <<colonies, loc>>
     ELSE IF ~colonies[id].live
     THEN /\ Done(r, 404, "Colony not found")
          /\ UNCHANGED <<colonies, loc>>
     ELSE /\ colonies' = [colonies EXCEPT ![id] = UpdatedColony(colonies[id], b)]
          /\ Done(r, 200, "Colony updated successfully")
          /\ UNCHANGED loc

\* --------------------------------------- DELETE /colonies/:id (delete colony)
\* `await Colony.findById(req.params.id)`
ColonyDeleteFind(r, id) ==
  /\ pc[r] = "idle"
  /\ UNCHANGED <<userVars, callVars, propVars>>
  /\ Accept(r, "deleteColony", id, NoBody)
  /\ UNCHANGED <<colonies, plots, nextColony, nextPlot>>
  /\ IF ~IsValidObjectId(id)
     THEN /\ Done(r, 500, "Server error")
          /\ UNCHANGED loc
     ELSE IF ~colonies[id].live
     THEN /\ Done(r, 404, "Colony not found")
          /\ UNCHANGED loc
     ELSE /\ pc' = [pc EXCEPT ![r] = "kCount"]
          /\ loc' = [loc EXCEPT ![r].colony = id]
          /\ UNCHANGED resp

\* `await Plot.countDocuments({ colony: req.params.id })`
ColonyDeleteCount(r) ==
  /\ pc[r] = "kCount"
  /\ UNCHANGED <<userVars, callVars, propVars>>
  /\ UNCHANGED <<colonies, plots, nextColony, nextPlot, arg, loc>>
  /\ IF PlotCount(plots, arg[r].id) > 0
     THEN Done(r, 400, "Cannot delete colony with existing plots")
     ELSE /\ pc' = [pc EXCEPT ![r] = "kDelete"]
          /\ UNCHANGED resp

\* `await colony.deleteOne()`
ColonyDeleteRemove(r) ==
  /\ pc[r] = "kDelete"
  /\ UNCHANGED <<userVars, callVars, propVars>>
  /\ colonies' = [colonies EXCEPT ![loc[r].colony] = NoColony]
  /\ DoneBare(r, "Colony deleted successfully")
  /\ UNCHANGED <<plots, nextColony, nextPlot, arg, loc>>

\* ------------------------------------------------ POST /users (create user)
\* The body validators, then `await User.findOne({ email })`
UserCreateFindEmail(r, b) ==
  /\ pc[r] = "idle"
  /\ UNCHANGED <<plotVars, callVars, propVars>>
  /\ Accept(r, "createUser", NoId, b)
  /\ UNCHANGED <<userVars, loc>>
  /\ IF ~ValidUserCreate(b)
     THEN Done(r, 400, "Validation errors")
     ELSE IF EmailTaken(users, b.email)
     THEN Done(r, 400, "User already exists with this email")
     ELSE pc' = [pc EXCEPT ![r] = "uRole"] /\ UNCHANGED resp

\* `await Role.findById(role)`
UserCreateFindRole(r) ==
  /\ pc[r] = "uRole"
  /\ UNCHANGED <<plotVars, callVars, propVars>>
  /\ UNCHANGED <<userVars, arg, loc>>
  /\ IF ~IsValidObjectId(arg[r].body.role)
     THEN Done(r, 500, "Server error")
     ELSE IF ~roles[arg[r].body.role].live
     THEN Done(r, 400, "Invalid role")
     ELSE pc' = [pc EXCEPT ![r] = "uInsert"] /\ UNCHANGED resp

\* `await User.create({...})`, `await user.populate('role')` and the response
UserCreateInsert(r) ==
  /\ pc[r] = "uInsert"
  /\ UNCHANGED <<plotVars, callVars, propVars>>
  /\ nextUser <= MaxUsers
  /\ users' = [users EXCEPT ![nextUser] = NewUser(arg[r].body)]
  /\ nextUser' = nextUser + 1
  /\ Done(r, 201, "User created successfully")
  /\ UNCHANGED <<roles, nextRole, arg, loc>>

\* ---------------------------------------------- PUT /users/:id (update user)
\* `await User.findByIdAndUpdate(req.params.id, {...})`
UserUpdate(r, id, b) ==
  /\ pc[r] = "idle"
  /\ UNCHANGED <<plotVars, callVars, propVars>>
  /\ Accept(r, "updateUser", id, b)
  /\ UNCHANGED <<roles, nextRole, nextUser, loc>>
  /\ IF ~IsValidObjectId(id) \/ b.role = BadId
     THEN /\ Done(r, 500, "Server error")
          /\ UNCHANGED users
     ELSE IF ~users[id].live
     THEN /\ Done(r, 404, "User not found")
          /\ UNCHANGED users
     ELSE /\ users' = [users EXCEPT ![id] = UpdatedUser(users[id], b)]
          /\ Done(r, 200, "User updated successfully")

\* ------------------------------------------- DELETE /users/:id (delete user)
\* `await User.findById(req.params.id)`
UserDeleteFind(r, id) ==
  /\ pc[r] = "idle"
  /\ UNCHANGED <<plotVars, callVars, propVars>>
  /\ Accept(r, "deleteUser", id, NoBody)
  /\ UNCHANGED <<userVars, loc>>
  /\ IF ~IsValidObjectId(id)
     THEN Done(r, 500, "Server error")
     ELSE IF ~users[id].live
     THEN Done(r, 404, "User not found")
     ELSE pc' = [pc EXCEPT ![r] = "uDelete"] /\ UNCHANGED resp

\* `await user.deleteOne()`
UserDeleteRemove(r) ==
  /\ pc[r] = "uDelete"
  /\ UNCHANGED <<plotVars, callVars, propVars>>
  /\ users' = [users EXCEPT ![arg[r].id] = NoUser]
  /\ DoneBare(r, "User deleted successfully")
  /\ UNCHANGED <<roles, nextRole, nextUser, arg, loc>>

\* ------------------------------------------ POST /users/roles (create role)
\* The document Role.create stores for body b
NewRole(b) == [live |-> TRUE, permissions |-> b.permissions]

\* body('name').notEmpty() and body('permissions').isArray({ min: 1 })
ValidRoleCreate(b) == b.name # NoStr /\ b.permissions # NoTokens /\ b.permissions # {}

\* The body validators, then `await Role.create({...})`
RoleCreate(r, b) ==
  /\ pc[r] = "idle"
  /\ UNCHANGED <<plotVars, callVars, propVars>>
  /\ nextRole <= MaxRoles
  /\ Accept(r, "createRole", nextRole, b)
  /\ UNCHANGED <<users, nextUser, loc>>
  /\ IF ~ValidRoleCreate(b)
     THEN /\ Done(r, 400, "Validation errors")
          /\ UNCHANGED <<roles, nextRole>>
     ELSE /\ roles' = [roles EXCEPT ![nextRole] = NewRole(b)]
          /\ nextRole' = nextRole + 1
          /\ Done(r, 201, "Role created successfully")

\* ---------------------------------------- PUT /users/roles/:id (update role)
\* `if (Array.isArray(permissions)) role.permissions = permissions`
UpdatedRole(doc, b) ==
  [doc EXCEPT !.permissions = IF b.permissions # NoTokens THEN b.permissions ELSE @]

\* `await Role.findById(req.params.id)`
RoleUpdateFind(r, id, b) ==
  /\ pc[r] = "idle"
  /\ UNCHANGED <<plotVars, callVars, propVars>>
  /\ Accept(r, "updateRole", id, b)
  /\ UNCHANGED <<userVars, loc>>
  /\ IF ~IsValidObjectId(id)
     THEN Done(r, 500, "Server error")
     ELSE IF ~roles[id].live
     THEN Done(r, 404, "Role not found")
     ELSE pc' = [pc EXCEPT ![r] = "rSave"] /\ UNCHANGED resp

\* `await role.save()`: the save of a document that is no longer stored
\* rejects
RoleUpdateSave(r) ==
  /\ pc[r] = "rSave"
  /\ UNCHANGED <<plotVars, callVars, propVars>>
  /\ UNCHANGED <<users, nextRole, nextUser, arg, loc>>
  /\ IF ~roles[arg[r].id].live
     THEN /\ Done(r, 500, "Server error")
          /\ UNCHANGED roles
     ELSE /\ roles' = [roles EXCEPT ![arg[r].id] = UpdatedRole(@, arg[r].body)]
          /\ Done(r, 200, "Role updated successfully")

\* ------------------------------------- DELETE /users/roles/:id (delete role)
\* `await Role.findById(req.params.id)`
RoleDeleteFind(r, id) ==
  /\ pc[r] = "idle"
  /\ UNCHANGED <<plotVars, callVars, propVars>>
  /\ Accept(r, "deleteRole", id, NoBody)
  /\ UNCHANGED <<userVars, loc>>
  /\ IF ~IsValidObjectId(id)
     THEN Done(r, 500, "Server error")
     ELSE IF ~roles[id].live
     THEN Done(r, 404, "Role not found")
     ELSE pc' = [pc EXCEPT ![r] = "rUser"] /\ UNCHANGED resp

\* `await User.findOne({ role: role._id })`
RoleDeleteFindUser(r) ==
  /\ pc[r] = "rUser"
  /\ UNCHANGED <<plotVars, callVars, propVars>>
  /\ UNCHANGED <<userVars, arg, loc>>
  /\ IF RoleInUse(users, arg[r].id)
     THEN Done(r, 400, "Cannot delete role assigned to users")
     ELSE pc' = [pc EXCEPT ![r] = "rDelete"] /\ UNCHANGED resp

\* `await role.deleteOne()`
RoleDeleteRemove(r) ==
  /\ pc[r] = "rDelete"
  /\ UNCHANGED <<plotVars, callVars, propVars>>
  /\ roles' = [roles EXCEPT ![arg[r].id] = NoRole]
  /\ DoneBare(r, "Role deleted successfully")
  /\ UNCHANGED <<users, nextRole, nextUser, arg, loc>>

\* ------------------------------------------ POST /properties (create property)
\* `colony: req.body.colonyId || req.body.colony`
NewProperty(b) == [live |-> TRUE, name |-> b.name, colony |-> b.colony]

\* body('name').notEmpty() and body('colonyId').notEmpty()
ValidPropertyCreate(b) == b.name # NoStr /\ b.colony # NoId

\* The validators, then `await Property.create(propertyData)`: a colony that
\* is no identifier fails the cast of the path
PropertyCreate(r, b) ==
  /\ pc[r] = "idle"
  /\ UNCHANGED <<plotVars, userVars, callVars>>
  /\ nextProperty <= MaxProperties
  /\ Accept(r, "createProperty", nextProperty, b)
  /\ UNCHANGED loc
  /\ IF ~ValidPropertyCreate(b)
     THEN /\ Done(r, 400, "Validation errors")
          /\ UNCHANGED propVars
     ELSE IF b.colony = BadId
     THEN /\ Done(r, 500, "Server error")
          /\ UNCHANGED propVars
     ELSE /\ properties' = [properties EXCEPT ![nextProperty] = NewProperty(b)]
          /\ nextProperty' = nextProperty + 1
          /\ pc' = [pc EXCEPT ![r] = "qPopulate"]
          /\ UNCHANGED resp

\* `await property.populate([...])`, then the response of the create or of the
\* update
PropertyPopulate(r) ==
  /\ pc[r] = "qPopulate"
  /\ UNCHANGED <<plotVars, userVars, callVars, propVars>>
  /\ UNCHANGED <<arg, loc>>
  /\ IF arg[r].op = "createProperty"
     THEN Done(r, 201, "Property created successfully")
     ELSE Done(r, 200, "Property updated successfully")

\* ---------------------------------------- PUT /properties/:id (update property)
\* `if (req.body.name) property.name = req.body.name`, and the colony likewise
UpdatedProperty(doc, b) ==
  [doc EXCEPT !.name = IF b.name # NoStr THEN b.name ELSE @,
              !.colony = IF b.colony # NoId THEN b.colony ELSE @]

\* `await Property.findById(req.params.id)`
PropertyUpdateFind(r, id, b) ==
  /\ pc[r] = "idle"
  /\ UNCHANGED <<plotVars, userVars, callVars, propVars>>
  /\ Accept(r, "updateProperty", id, b)
  /\ UNCHANGED loc
  /\ IF ~IsValidObjectId(id)
     THEN Done(r, 500, "Server error")
     ELSE IF ~properties[id].live
     THEN Done(r, 404, "Property not found")
     ELSE pc' = [pc EXCEPT ![r] = "qSave"] /\ UNCHANGED resp

\* `await property.save()`: the save of a document that is no longer stored,
\* or whose colony is no identifier, rejects
PropertyUpdateSave(r) ==
  /\ pc[r] = "qSave"
  /\ UNCHANGED <<plotVars, userVars, callVars>>
  /\ UNCHANGED <<nextProperty, arg, loc>>
  /\ IF ~properties[arg[r].id].live \/ arg[r].body.colony = BadId
     THEN /\ Done(r, 500, "Server error")
          /\ UNCHANGED properties
     ELSE /\ properties' = [properties EXCEPT
                              ![arg[r].id] = UpdatedProperty(@, arg[r].body)]
          /\ pc' = [pc EXCEPT ![r] = "qPopulate"]
          /\ UNCHANGED resp

\* ------------------------------------- DELETE /properties/:id (delete property)
\* `await Property.findById(req.params.id)`
PropertyDeleteFind(r, id) ==
  /\ pc[r] = "idle"
  /\ UNCHANGED <<plotVars, userVars, callVars, propVars>>
  /\ Accept(r, "deleteProperty", id, NoBody)
  /\ UNCHANGED loc
  /\ IF ~IsValidObjectId(id)
     THEN Done(r, 500, "Server error")
     ELSE IF ~properties[id].live
     THEN Done(r, 404, "Property not found")
     ELSE pc' = [pc EXCEPT ![r] = "qDelete"] /\ UNCHANGED resp

\* `await property.deleteOne()`
PropertyDeleteRemove(r) ==
  /\ pc[r] = "qDelete"
  /\ UNCHANGED <<plotVars, userVars, callVars>>
  /\ properties' = [properties EXCEPT ![arg[r].id] = NoProperty]
  /\ DoneBare(r, "Property deleted successfully")
  /\ UNCHANGED <<nextProperty, arg, loc>>

\* ------------------------------------------------ PUT /settings (update settings)
\* The handler stores nothing: it answers with the body it was sent
SettingsUpdate(r, b) ==
  /\ pc[r] = "idle"
  /\ UNCHANGED <<plotVars, userVars, callVars, propVars>>
  /\ Accept(r, "updateSettings", NoId, b)
  /\ Done(r, 200, "Settings updated successfully")
  /\ UNCHANGED loc

\* ------------------------------------------------------------ the inputs
PlotNumbers == {"A1", "B2"}

\* POST /plots bodies of the interleaved runs
CreateBodies ==
  {[NoBody EXCEPT !.plotNumber = "A1", !.colony = 1, !.area = 50,
                  !.pricePerSqFt = 100, !.totalPrice = 1, !.facing = "north"],
   [NoBody EXCEPT !.plotNumber = "B2", !.colony = 1, !.area = 50,
                  !.pricePerSqFt = 100, !.totalPrice = 1, !.facing = "north",
                  !.status = "sold"]}

\* PUT /plots/:id bodies of the interleaved runs
UpdateBodies ==
  {[NoBody EXCEPT !.status = "available"]}

\* ------------------------------------------------------------------ Next
\* A store that holds colony 1, its counters 0, and no plot
ColonyStore ==
  /\ colonies = [c \in ColonyIds |-> IF c = 1 THEN NewColony(NoBody) ELSE NoColony]
  /\ plots = [p \in PlotIds |-> NoPlot]
  /\ nextColony = 2
  /\ nextPlot = 1
  /\ pc = [r \in Requests |-> "idle"]
  /\ arg = [r \in Requests |-> NoArg]
  /\ loc = [r \in Requests |-> NoLoc]
  /\ roles = [x \in RoleIds |-> NoRole]
  /\ users = [u \in UserIds |-> NoUser]
  /\ nextRole = 1
  /\ nextUser = 1
  /\ properties = [x \in PropertyIds |-> NoProperty]
  /\ nextProperty = 1
  /\ resp = [r \in Requests |-> NoResp]

InitRace ==
  /\ ColonyStore
  /\ call = NoCall
  /\ result = NoResult

\* A handler sends its response in the same turn of the event loop as the
\* continuation of its last store call: no store call of another request is
\* served between the two.
NoneDone == \A q \in Requests : pc[q] # "done"

\* A new request arrives on the first free connection
Arrives(r) ==
  /\ NoneDone
  /\ pc[r] = "idle"
  /\ r = "r1" \/ pc["r1"] # "idle"

\* Two clients, their requests interleaved at every store call
Next ==
  \/ \E r \in Requests, b \in CreateBodies : Arrives(r) /\ PlotCreateFindColony(r, b)
  \/ \E r \in Requests, id \in PlotIds, b \in UpdateBodies :
       Arrives(r) /\ PlotUpdate(r, id, b)
  \/ \E r \in Requests, id \in PlotIds : Arrives(r) /\ PlotDeleteFind(r, id)
  \/ \E r \in Requests : NoneDone /\ PlotCreateFindDuplicate(r)
  \/ \E r \in Requests : NoneDone /\ PlotCreateInsert(r)
  \/ \E r \in Requests : NoneDone /\ PostSaveFindColony(r)
  \/ \E r \in Requests : NoneDone /\ UpdatePlotCountsFind(r)
  \/ \E r \in Requests : NoneDone /\ UpdatePlotCountsSave(r)
  \/ \E r \in Requests : NoneDone /\ PlotCreateRespond(r)
  \/ \E r \in Requests : NoneDone /\ PlotDeleteRemove(r)
  \/ \E r \in Requests : ResponseSent(r)

Spec == InitRace /\ [][Next]_vars

\* ------------------------------------------------ one request at a time
Client == "r1"

\* POST /plots bodies: complete ones, one without totalPrice, one that the
\* validators reject (area below MinArea), one that names no stored colony
SeqCreateBodies ==
  {[NoBody EXCEPT !.plotNumber = n, !.colony = 1, !.area = 50, !.pricePerSqFt = 100,
                  !.totalPrice = 1, !.status = s, !.facing = "north"] :
     n \in PlotNumbers, s \in {NoStr, "sold", "blocked"}}
  \cup {[NoBody EXCEPT !.plotNumber = "A1", !.colony = 1, !.area = 50,
                       !.pricePerSqFt = 100, !.facing = "north"],
        [NoBody EXCEPT !.plotNumber = "A1", !.colony = 1, !.area = 49,
                       !.pricePerSqFt = 100, !.totalPrice = 1, !.facing = "north"],
        [NoBody EXCEPT !.plotNumber = "A1", !.colony = 2, !.area = 50,
                       !.pricePerSqFt = 100, !.totalPrice = 1, !.facing = "north"]}

\* PUT /plots/:id bodies
SeqUpdateBodies ==
  {[NoBody EXCEPT !.status = "sold"], [NoBody EXCEPT !.status = "reserved"]}

\* Plot requests against colony 1, the next one arriving when the response to
\* the last one has been read
SeqNext ==
  \/ \E b \in SeqCreateBodies : PlotCreateFindColony(Client, b)
  \/ \E id \in PlotIds, b \in SeqUpdateBodies : PlotUpdate(Client, id, b)
  \/ \E id \in PlotIds : PlotDeleteFind(Client, id)
  \/ PlotCreateFindDuplicate(Client)
  \/ PlotCreateInsert(Client)
  \/ PostSaveFindColony(Client)
  \/ UpdatePlotCountsFind(Client)
  \/ UpdatePlotCountsSave(Client)
  \/ PlotCreateRespond(Client)
  \/ PlotDeleteRemove(Client)
  \/ ResponseSent(Client)

SpecSeq == InitRace /\ [][SeqNext]_vars

\* ------------------------------- colonies and their plots, one request at a time
\* POST /plots bodies
ColonyPlotBodies ==
  {[NoBody EXCEPT !.plotNumber = n, !.colony = c, !.area = 50, !.pricePerSqFt = 100,
                  !.totalPrice = 1, !.facing = "north"] :
     n \in PlotNumbers, c \in ColonyIds}

\* POST /colonies and PUT /colonies/:id bodies: without and with counters
ColonyBodies == {NoBody, [NoBody EXCEPT !.totalPlots = 2, !.soldPlots = 1]}

ColonyNext ==
  \/ \E b \in ColonyBodies : ColonyCreate(Client, b)
  \/ \E id \in ColonyIds, b \in ColonyBodies : ColonyUpdate(Client, id, b)
  \/ \E id \in ColonyIds : ColonyDeleteFind(Client, id)
  \/ ColonyDeleteCount(Client)
  \/ ColonyDeleteRemove(Client)
  \/ \E b \in ColonyPlotBodies : PlotCreateFindColony(Client, b)
  \/ \E id \in PlotIds : PlotDeleteFind(Client, id)
  \/ PlotCreateFindDuplicate(Client)
  \/ PlotCreateInsert(Client)
  \/ PostSaveFindColony(Client)
  \/ UpdatePlotCountsFind(Client)
  \/ UpdatePlotCountsSave(Client)
  \/ PlotCreateRespond(Client)
  \/ PlotDeleteRemove(Client)
  \/ ResponseSent(Client)

SpecColony == Init /\ [][ColonyNext]_vars

\* ------------------------------------- users and roles, one request at a time
Emails == {"a@plots.test", "b@plots.test"}

\* POST /users bodies
UserCreateBodies ==
  {[NoBody EXCEPT !.email = e, !.role = x] : e \in Emails, x \in RoleIds}
    \cup {[NoBody EXCEPT !.email = "a@plots.test"],
          [NoBody EXCEPT !.email = "b@plots.test", !.role = BadId]}

\* PUT /users/:id bodies: with and without a role
UserUpdateBodies == {[NoBody EXCEPT !.role = x] : x \in RoleIds} \cup {NoBody}

\* POST /users/roles bodies
RoleCreateBodies == {[NoBody EXCEPT !.name = "Agent", !.permissions = {"plot_read"}]}

UsersNext ==
  \/ \E b \in UserCreateBodies : UserCreateFindEmail(Client, b)
  \/ UserCreateFindRole(Client)
  \/ UserCreateInsert(Client)
  \/ \E id \in UserIds \cup {BadId}, b \in UserUpdateBodies : UserUpdate(Client, id, b)
  \/ \E id \in UserIds \cup {BadId} : UserDeleteFind(Client, id)
  \/ UserDeleteRemove(Client)
  \/ \E b \in RoleCreateBodies : RoleCreate(Client, b)
  \/ \E id \in RoleIds \cup {BadId} : RoleDeleteFind(Client, id)
  \/ RoleDeleteFindUser(Client)
  \/ RoleDeleteRemove(Client)
  \/ ResponseSent(Client)

SpecUsers == Init /\ [][UsersNext]_vars

\* ------- user creates, user updates and role deletes, requests interleaved
\* POST /users bodies: one email, every role
UserRefCreateBodies == {[NoBody EXCEPT !.email = "a@plots.test", !.role = x] : x \in RoleIds}

\* PUT /users/:id bodies: the user is given a role
UserRefUpdateBodies == {[NoBody EXCEPT !.role = x] : x \in RoleIds}

UserRefNext ==
  \/ \E r \in Requests, b \in UserRefCreateBodies : Arrives(r) /\ UserCreateFindEmail(r, b)
  \/ \E r \in Requests : NoneDone /\ UserCreateFindRole(r)
  \/ \E r \in Requests : NoneDone /\ UserCreateInsert(r)
  \/ \E r \in Requests, id \in UserIds, b \in UserRefUpdateBodies :
       Arrives(r) /\ UserUpdate(r, id, b)
  \/ \E r \in Requests, b \in RoleCreateBodies : Arrives(r) /\ RoleCreate(r, b)
  \/ \E r \in Requests, id \in RoleIds : Arrives(r) /\ RoleDeleteFind(r, id)
  \/ \E r \in Requests : NoneDone /\ RoleDeleteFindUser(r)
  \/ \E r \in Requests : NoneDone /\ RoleDeleteRemove(r)
  \/ \E r \in Requests : ResponseSent(r)

SpecUserRef == Init /\ [][UserRefNext]_vars

\* ------------------------------------ plot prices, one request at a time
\* POST /plots bodies: totalPrice is sent (the schema requires it) and is not
\* the product
PriceCreateBodies ==
  {[NoBody EXCEPT !.plotNumber = n, !.colony = 1, !.area = a, !.pricePerSqFt = 100,
                  !.totalPrice = 1, !.facing = "north"] :
     n \in PlotNumbers, a \in {50, 60}}

\* PUT /plots/:id bodies: both factors, one factor, the total alone
PriceUpdateBodies ==
  {[NoBody EXCEPT !.area = 60, !.pricePerSqFt = 200],
   [NoBody EXCEPT !.area = 50, !.pricePerSqFt = 100, !.totalPrice = 1],
   [NoBody EXCEPT !.area = 60],
   [NoBody EXCEPT !.totalPrice = 1]}

PriceNext ==
  \/ \E b \in PriceCreateBodies : PlotCreateFindColony(Client, b)
  \/ PlotCreateFindDuplicate(Client)
  \/ PlotCreateInsert(Client)
  \/ PostSaveFindColony(Client)
  \/ UpdatePlotCountsFind(Client)
  \/ UpdatePlotCountsSave(Client)
  \/ PlotCreateRespond(Client)
  \/ \E id \in PlotIds, b \in PriceUpdateBodies : PlotUpdate(Client, id, b)
  \/ ResponseSent(Client)

SpecPrice == InitRace /\ [][PriceNext]_vars

\* ----------------- plot creates and colony deletes, requests interleaved
\* POST /plots bodies
FailCreateBodies ==
  {[NoBody EXCEPT !.plotNumber = "A1", !.colony = c, !.area = 50, !.pricePerSqFt = 100,
                  !.totalPrice = 1, !.facing = "north"] : c \in ColonyIds}

FailNext ==
  \/ \E r \in Requests, b \in FailCreateBodies : Arrives(r) /\ PlotCreateFindColony(r, b)
  \/ \E r \in Requests : NoneDone /\ PlotCreateFindDuplicate(r)
  \/ \E r \in Requests : NoneDone /\ PlotCreateInsert(r)
  \/ \E r \in Requests : NoneDone /\ PostSaveFindColony(r)
  \/ \E r \in Requests : NoneDone /\ UpdatePlotCountsFind(r)
  \/ \E r \in Requests : NoneDone /\ UpdatePlotCountsSave(r)
  \/ \E r \in Requests : NoneDone /\ PlotCreateRespond(r)
  \/ \E r \in Requests : Arrives(r) /\ ColonyCreate(r, NoBody)
  \/ \E r \in Requests, id \in ColonyIds : Arrives(r) /\ ColonyDeleteFind(r, id)
  \/ \E r \in Requests : NoneDone /\ ColonyDeleteCount(r)
  \/ \E r \in Requests : NoneDone /\ ColonyDeleteRemove(r)
  \/ \E r \in Requests : ResponseSent(r)

SpecFail == InitRace /\ [][FailNext]_vars

\* --- plot creates, plot updates and colony deletes, requests interleaved
\* PUT /plots/:id bodies: the plot is pointed at a colony
RefUpdateBodies == {[NoBody EXCEPT !.colony = c] : c \in ColonyIds}

RefNext ==
  \/ \E r \in Requests, b \in FailCreateBodies : Arrives(r) /\ PlotCreateFindColony(r, b)
  \/ \E r \in Requests : NoneDone /\ PlotCreateFindDuplicate(r)
  \/ \E r \in Requests : NoneDone /\ PlotCreateInsert(r)
  \/ \E r \in Requests : NoneDone /\ PostSaveFindColony(r)
  \/ \E r \in Requests : NoneDone /\ UpdatePlotCountsFind(r)
  \/ \E r \in Requests : NoneDone /\ UpdatePlotCountsSave(r)
  \/ \E r \in Requests : NoneDone /\ PlotCreateRespond(r)
  \/ \E r \in Requests, id \in PlotIds, b \in RefUpdateBodies :
       Arrives(r) /\ PlotUpdate(r, id, b)
  \/ \E r \in Requests, id \in ColonyIds : Arrives(r) /\ ColonyDeleteFind(r, id)
  \/ \E r \in Requests : NoneDone /\ ColonyDeleteCount(r)
  \/ \E r \in Requests : NoneDone /\ ColonyDeleteRemove(r)
  \/ \E r \in Requests : ResponseSent(r)

SpecRef == InitRace /\ [][RefNext]_vars

\* ------------- requests with broken fields and identifiers, one at a time
\* POST /plots bodies: every field right, absent or wrong
InvalidCreateBodies ==
  {[NoBody EXCEPT !.plotNumber = n, !.colony = c, !.area = a, !.pricePerSqFt = q,
                  !.totalPrice = 1, !.facing = f, !.status = st] :
     n \in {"A1", NoStr}, c \in {1, NoId, BadId}, a \in {50, 49, NoNum},
     q \in {100, NoNum}, f \in {"north", "up"}, st \in {NoStr, "gone"}}

\* PUT /plots/:id bodies
InvalidUpdateBodies ==
  {[NoBody EXCEPT !.area = a, !.status = st] :
     a \in {NoNum, 49}, st \in {NoStr, "gone", "blocked"}}

ValidNext ==
  \/ \E b \in InvalidCreateBodies : PlotCreateFindColony(Client, b)
  \/ PlotCreateFindDuplicate(Client)
  \/ PlotCreateInsert(Client)
  \/ PostSaveFindColony(Client)
  \/ UpdatePlotCountsFind(Client)
  \/ UpdatePlotCountsSave(Client)
  \/ PlotCreateRespond(Client)
  \/ \E id \in PlotIds \cup {BadId}, b \in InvalidUpdateBodies : PlotUpdate(Client, id, b)
  \/ \E id \in PlotIds \cup {BadId} : PlotDeleteFind(Client, id)
  \/ PlotDeleteRemove(Client)
  \/ \E id \in ColonyIds \cup {BadId} : ColonyUpdate(Client, id, NoBody)
  \/ \E id \in ColonyIds \cup {BadId} : ColonyDeleteFind(Client, id)
  \/ ColonyDeleteCount(Client)
  \/ ColonyDeleteRemove(Client)
  \/ ResponseSent(Client)

SpecValid == InitRace /\ [][ValidNext]_vars

\* --------------------------------------------------- sanitizePhone calls
\* Phone inputs: the three numbers of the documentation, runs of up to
\* MaxDigits digits between a prefix and a suffix, and values that are not
\* strings
PhoneInputs ==
  {JsString(<<"9", "8", "7", "6", "5", "4", "3", "2", "1", "0">>),
   JsString(<<"1", "2", "3", "4", "5">>),
   JsString(<<"+", "1", "4", "1", "5", "5", "5", "5", "2", "6", "7", "1">>),
   JsNull, JsNumber}
  \cup {JsString(pre \o [i \in 1..n |-> d] \o suf) :
          n \in 0..MaxDigits, d \in {"7", "0"},
          pre \in {<<>>, <<"+">>, <<"+", "9", "1", "-">>, <<"(">>},
          suf \in {<<>>, <<" ">>, <<"x", "1">>}}

\* A call of sanitizePhone returns
CallSanitizePhone ==
  /\ call.fn = "sanitizePhone"
  /\ result.type = "none"
  /\ result' = sanitizePhone(call.phone)
  /\ UNCHANGED <<plotVars, userVars, propVars, pc, arg, loc, resp, call>>

InitPhone ==
  /\ EmptyStore
  /\ call \in {[fn |-> "sanitizePhone", phone |-> v] : v \in PhoneInputs}
  /\ result = NoResult

SpecPhone == InitPhone /\ [][CallSanitizePhone]_vars

\* ------------------------------------------------------- list requests
\* The sorted matches of a query, named by their rank
Sorted(total) == [i \in 1..total |-> i]

\* GET /plots, GET /colonies, GET /users with ?page=&limit= answer
CallListPage ==
  /\ call.fn = "list"
  /\ result.type = "none"
  /\ result' = ListPage(call.sorted, call.page, call.limit)
  /\ UNCHANGED <<plotVars, userVars, propVars, pc, arg, loc, resp, call>>

InitPage ==
  /\ EmptyStore
  /\ call \in {[fn |-> "list", sorted |-> Sorted(total), page |-> p, limit |-> l] :
                 total \in 0..MaxTotal, p \in 1..MaxPage, l \in 1..MaxLimit}
  /\ result = NoResult

SpecPage == InitPage /\ [][CallListPage]_vars

\* ------------------------------------ the field rules, one request at a time
\* POST /plots bodies: every ruled field at a bound of its range, or just
\* outside it
RuleCreateBodies ==
  {[NoBody EXCEPT !.plotNumber = "A1", !.colony = 1, !.area = a, !.pricePerSqFt = q,
                  !.totalPrice = 1, !.facing = f, !.status = st, !.roadWidth = w] :
     a \in {MinArea, MaxArea, MinArea - 1}, q \in {MinPrice, MaxPrice + 1},
     f \in {"north", "up"}, st \in {NoStr, "gone"},
     w \in {NoNum, MaxRoadWidth, MaxRoadWidth + 1}}

\* PUT /plots/:id bodies: one field each
RuleUpdateBodies ==
  {[NoBody EXCEPT !.area = a] : a \in {MaxArea, MaxArea + 1}}
    \cup {[NoBody EXCEPT !.pricePerSqFt = q] : q \in {MaxPrice, MinPrice - 1}}
    \cup {[NoBody EXCEPT !.roadWidth = w] : w \in {MinRoadWidth, MaxRoadWidth + 1}}
    \cup {[NoBody EXCEPT !.facing = f] : f \in {"south", "up"}}
    \cup {[NoBody EXCEPT !.status = st] : st \in {"reserved", "gone"}}

RulesNext ==
  \/ \E b \in RuleCreateBodies : PlotCreateFindColony(Client, b)
  \/ PlotCreateFindDuplicate(Client)
  \/ PlotCreateInsert(Client)
  \/ PostSaveFindColony(Client)
  \/ UpdatePlotCountsFind(Client)
  \/ UpdatePlotCountsSave(Client)
  \/ PlotCreateRespond(Client)
  \/ \E id \in PlotIds, b \in RuleUpdateBodies : PlotUpdate(Client, id, b)
  \/ ResponseSent(Client)

SpecRules == InitRace /\ [][RulesNext]_vars

\* ------------------------------------------------------- sanitizeRequest
\* A JSON array and a JSON object (its members in the order of Object.entries)
JsArray(items) == [type |-> "array", items |-> items]

JsObject(members) == [type |-> "object", members |-> members]

Member(key, value) == [key |-> key, value |-> value]

\* The characters validator.trim strips from both ends
IsSpace(ch) == ch = " "

RECURSIVE TrimLeft(_)
TrimLeft(chars) ==
  IF chars # <<>> /\ IsSpace(Head(chars)) THEN TrimLeft(Tail(chars)) ELSE chars

RECURSIVE TrimRight(_)
TrimRight(chars) ==
  IF chars # <<>> /\ IsSpace(chars[Len(chars)])
  THEN TrimRight(SubSeq(chars, 1, Len(chars) - 1))
  ELSE chars

\* validator.trim
Trim(chars) == TrimRight(TrimLeft(chars))

\* validator.escape, what it puts for one character (of the characters the
\* inputs are made of, it replaces & and <)
EscapeChar(ch) ==
  CASE ch = "&" -> <<"&", "a", "m", "p", ";">>
    [] ch = "<" -> <<"&", "l", "t", ";">>
    [] OTHER -> <<ch>>

RECURSIVE Escape(_)
Escape(chars) ==
  IF chars = <<>> THEN <<>> ELSE EscapeChar(Head(chars)) \o Escape(Tail(chars))

\* sanitizers.sanitizeString
sanitizeString(str) ==
  IF str.type # "string" THEN str ELSE JsString(Escape(Trim(str.chars)))

\* sanitizeObject of sanitizeRequest
RECURSIVE sanitizeObject(_)
sanitizeObject(obj) ==
  IF obj.type = "array"
  THEN JsArray([i \in 1..Len(obj.items) |-> sanitizeObject(obj.items[i])])
  ELSE IF obj.type = "object"
  THEN JsObject([i \in 1..Len(obj.members) |->
                  Member(obj.members[i].key,
                         IF obj.members[i].value.type = "string"
                         THEN sanitizeString(obj.members[i].value)
                         ELSE sanitizeObject(obj.members[i].value))])
  ELSE obj

\* sanitizeRequest: what req.body is when next() is called (`if (req.body)`:
\* null is left as it is)
sanitizeRequest(body) == IF body.type = "null" THEN body ELSE sanitizeObject(body)

\* The request bodies: objects of up to MaxItems members, each a leaf, an
\* array of leaves, an array in an array or an object in the object
KeyNames == <<"name", "description", "tags", "remarks", "address">>

Leaves == {JsString(<<" ", "a", "<", " ">>), JsString(<<"a", " ", "&">>), JsNumber}

SeqsUpTo(S, n) == UNION {[1..k -> S] : k \in 0..n}

BodyValues ==
  Leaves
    \cup {JsArray(items) : items \in SeqsUpTo(Leaves, MaxItems)}
    \cup {JsArray(<<JsArray(<<x>>)>>) : x \in Leaves}
    \cup {JsObject(<<Member("name", x)>>) : x \in Leaves}

SanitizeInputs ==
  {JsObject([i \in 1..Len(values) |-> Member(KeyNames[i], values[i])]) :
     values \in SeqsUpTo(BodyValues, MaxItems)}
    \cup {JsArray(<<x>>) : x \in Leaves} \cup {JsNull}

\* A call of sanitizeRequest has called next()
CallSanitizeRequest ==
  /\ call.fn = "sanitizeRequest"
  /\ result.type = "none"
  /\ result' = [type |-> "body", body |-> sanitizeRequest(call.body)]
  /\ UNCHANGED <<plotVars, userVars, propVars, pc, arg, loc, resp, call>>

InitSanitize ==
  /\ EmptyStore
  /\ call \in {[fn |-> "sanitizeRequest", body |-> v] : v \in SanitizeInputs}
  /\ result = NoResult

SpecSanitize == InitSanitize /\ [][CallSanitizeRequest]_vars

\* ------------------------------------------------- initRoles, initCities
\* The identities each routine seeds, in the order of its loop: the names of
\* `roles`, the (name, state) pairs of `cities`
Seeds(fn) ==
  IF fn = "initRoles"
  THEN <<[name |-> "Admin"], [name |-> "Manager"], [name |-> "Agent"],
         [name |-> "Buyer"], [name |-> "Lawyer"]>>
  ELSE <<[name |-> "Mumbai", state |-> "Maharashtra"],
         [name |-> "Pune", state |-> "Maharashtra"],
         [name |-> "Nashik", state |-> "Maharashtra"],
         [name |-> "Nagpur", state |-> "Maharashtra"],
         [name |-> "Aurangabad", state |-> "Maharashtra"]>>

\* The identities of the documents of the collection a routine runs on: the
\* seeded ones and, for the cities, a city of a seeded name in another state
Identities(fn) ==
  {Seeds(fn)[i] : i \in 1..Len(Seeds(fn))}
    \cup (IF fn = "initCities" THEN {[name |-> "Pune", state |-> "Karnataka"]} ELSE {})

\* A findOne that finds no document
FindOneNull(start, created, key) == FALSE

\* Role.findOne({ name }) / City.findOne({ name, state }) on the collection
\* that held start[k] documents of identity k when the first run began and
\* holds created[k] documents the runs have created: a document was found
FindOne(start, created, key) == start[key] + created[key] > 0

\* `await Role.findOne(...)` / `await City.findOne(...)` of the iteration at
\* result.at: with a document found the loop goes on to the next identity
SeedFindOne ==
  /\ result.type = "find"
  /\ result.at <= Len(Seeds(call.fn))
  /\ result' =
       IF FindOne(call.start, result.created, Seeds(call.fn)[result.at])
       THEN [result EXCEPT !.at = @ + 1]
       ELSE [result EXCEPT !.type = "create"]
  /\ UNCHANGED <<plotVars, userVars, propVars, pc, arg, loc, resp, call>>

\* `await Role.create(roleData)` / `await City.create(cityData)`
SeedCreate ==
  /\ result.type = "create"
  /\ result' = [result EXCEPT !.type = "find", !.at = @ + 1,
                              !.created[Seeds(call.fn)[result.at]] = @ + 1]
  /\ UNCHANGED <<plotVars, userVars, propVars, pc, arg, loc, resp, call>>

\* The loop has ended: the routine returns, and is run again
SeedRunAgain ==
  /\ result.type = "find"
  /\ result.at > Len(Seeds(call.fn))
  /\ result.runs < MaxRuns
  /\ result' = [result EXCEPT !.at = 1, !.runs = @ + 1]
  /\ UNCHANGED <<plotVars, userVars, propVars, pc, arg, loc, resp, call>>

\* The first run of a routine begins, on a collection that holds up to
\* MaxCopies documents of each identity
InitSeed ==
  /\ EmptyStore
  /\ call \in {[fn |-> fn, start |-> st] :
                 fn \in {"initRoles"}, st \in [Identities("initRoles") -> 0..MaxCopies]}
            \cup {[fn |-> fn, start |-> st] :
                 fn \in {"initCities"}, st \in [Identities("initCities") -> 0..MaxCopies]}
  /\ result = [type |-> "find", at |-> 1, runs |-> 1,
               created |-> [k \in Identities(call.fn) |-> 0]]

SeedNext == SeedFindOne \/ SeedCreate \/ SeedRunAgain

SpecSeed == InitSeed /\ [][SeedNext]_vars

\* ------------------------------------ GET /plots/colony/:colonyId (list plots)
\* req.query: the filters, absent unless set
NoQuery == [status |-> NoStr, facing |-> NoStr, minPrice |-> NoNum, maxPrice |-> NoNum,
            minArea |-> NoNum, maxArea |-> NoNum]

\* req.params of the route '/colony/:colonyId': it has no member `id`
ColonyRouteParams(colonyId) == [colonyId |-> colonyId, id |-> NoId]

\* validations.query.plotFilters: every rule is optional()
PlotFilterRules(q) ==
  {Rule("status", "query", "Invalid status filter", q.status,
        q.status # NoStr /\ q.status \notin PlotStatuses),
   Rule("facing", "query", "Invalid facing filter", q.facing,
        q.facing # NoStr /\ q.facing \notin Facings),
   Rule("minPrice", "query", "Minimum price must be a positive number", q.minPrice,
        q.minPrice # NoNum /\ q.minPrice < 0),
   Rule("maxPrice", "query", "Maximum price must be a positive number", q.maxPrice,
        q.maxPrice # NoNum /\ q.maxPrice < 0),
   Rule("minArea", "query", "Minimum area must be a positive number", q.minArea,
        q.minArea # NoNum /\ q.minArea < 0),
   Rule("maxArea", "query", "Maximum area must be a positive number", q.maxArea,
        q.maxArea # NoNum /\ q.maxArea < 0)}

\* Plot.find(query) for the query the handler builds: a filter that is
\* absent, or falsy, is left out
FindPlots(ps, colonyId, q) ==
  {p \in PlotIds :
     /\ ps[p].live
     /\ ps[p].colony = colonyId
     /\ (q.status # NoStr => ps[p].status = q.status)
     /\ (q.facing # NoStr => ps[p].facing = q.facing)
     /\ (Truthy(q.minPrice) => ps[p].totalPrice >= q.minPrice)
     /\ (Truthy(q.maxPrice) => ps[p].totalPrice <= q.maxPrice)
     /\ (Truthy(q.minArea) => ps[p].area >= q.minArea)
     /\ (Truthy(q.maxArea) => ps[p].area <= q.maxArea)}

\* The middlewares and the handler of the route: validations.params.objectId
\* (the rule on param('id')), validations.query.plotFilters,
\* handleValidationErrors, then `await Plot.find(query)`
getPlotsByColony(ps, params, q) ==
  LET errs == Errors(ParamRules(params.id) \cup PlotFilterRules(q))
  IN IF errs # {}
     THEN [type |-> "response", status |-> 400, message |-> "Validation failed",
           errors |-> errs, plots |-> {}]
     ELSE IF ~IsValidObjectId(params.colonyId)
     THEN [type |-> "response", status |-> 500, message |-> "Server error",
           errors |-> {}, plots |-> {}]
     ELSE [type |-> "response", status |-> 200, message |-> "Plots fetched",
           errors |-> {}, plots |-> FindPlots(ps, params.colonyId, q)]

\* The requests: a stored colony, one without plots and a malformed one, with
\* filters that match some, all or none of the plots, and malformed ones
ListQueries ==
  {[NoQuery EXCEPT !.status = st, !.facing = f, !.minPrice = lo, !.maxArea = hi] :
     st \in {NoStr, "sold", "gone"}, f \in {NoStr, "north"},
     lo \in {NoNum, 0, 6000}, hi \in {NoNum, 50}}

\* A call of the route returns
CallGetPlotsByColony ==
  /\ call.fn = "getPlotsByColony"
  /\ result.type = "none"
  /\ result' = getPlotsByColony(plots, ColonyRouteParams(call.colonyId), call.query)
  /\ UNCHANGED <<plotVars, userVars, propVars, pc, arg, loc, resp, call>>

\* The store holds colony 1 with plots A1 (available, north, 50 x 100) and
\* B2 (sold, south, 60 x 200)
InitList ==
  /\ pc = [r \in Requests |-> "idle"]
  /\ arg = [r \in Requests |-> NoArg]
  /\ loc = [r \in Requests |-> NoLoc]
  /\ resp = [r \in Requests |-> NoResp]
  /\ roles = [x \in RoleIds |-> NoRole]
  /\ users = [u \in UserIds |-> NoUser]
  /\ nextRole = 1
  /\ nextUser = 1
  /\ properties = [x \in PropertyIds |-> NoProperty]
  /\ nextProperty = 1
  /\ colonies = [c \in ColonyIds |->
                   IF c = 1 THEN [NewColony(NoBody) EXCEPT !.totalPlots = 2,
                                     !.availablePlots = 1, !.soldPlots = 1]
                   ELSE NoColony]
  /\ nextColony = 2
  /\ plots = [p \in PlotIds |->
                CASE p = 1 -> PreSave(NewPlot([NoBody EXCEPT !.plotNumber = "A1",
                                !.colony = 1, !.area = 50, !.pricePerSqFt = 100,
                                !.totalPrice = 1, !.facing = "north"]))
                  [] p = 2 -> PreSave(NewPlot([NoBody EXCEPT !.plotNumber = "B2",
                                !.colony = 1, !.area = 60, !.pricePerSqFt = 200,
                                !.totalPrice = 1, !.facing = "south",
                                !.status = "sold"]))
                  [] OTHER -> NoPlot]
  /\ nextPlot = 3
  /\ call \in {[fn |-> "getPlotsByColony", colonyId |-> c, query |-> q] :
                 c \in {1, 2, BadId}, q \in ListQueries}
  /\ result = NoResult

SpecList == InitList /\ [][CallGetPlotsByColony]_vars

\* ------------------------------------------------- the access control gate
\* authorize(...tokens): the tokens each mutating route is mounted with
Required(op) ==
  CASE op = "createUser" -> {"user_create", "all"}
    [] op = "updateUser" -> {"user_update", "all"}
    [] op = "deleteUser" -> {"user_delete", "all"}
    [] op = "createRole" -> {"user_create", "all"}
    [] op = "updateRole" -> {"user_update", "all"}
    [] op = "deleteRole" -> {"user_delete", "all"}
    [] op = "createPlot" -> {"plot_create", "all"}
    [] op = "updatePlot" -> {"plot_update", "all"}
    [] op = "deletePlot" -> {"plot_delete", "all"}
    [] op = "createColony" -> {"colony_create", "all"}
    [] op = "updateColony" -> {"colony_update", "all"}
    [] op = "deleteColony" -> {"colony_delete", "all"}
    [] op = "createProperty" -> {"colony_create", "plot_create", "all"}
    [] op = "updateProperty" -> {"colony_update", "plot_update", "all"}
    [] op = "deleteProperty" -> {"colony_delete", "plot_delete", "all"}
    [] op = "updateSettings" -> {"settings_update", "all"}

\* The mutating routes of each router
Routes ==
  [users |-> {"createUser", "updateUser", "deleteUser",
              "createRole", "updateRole", "deleteRole"},
   plots |-> {"createPlot", "updatePlot", "deletePlot"},
   colonies |-> {"createColony", "updateColony", "deleteColony"},
   properties |-> {"createProperty", "updateProperty", "deleteProperty"},
   settings |-> {"updateSettings"}]

MutatingRoutes == UNION {Routes[x] : x \in DOMAIN Routes}

\* The gate's decision for a principal whose Role holds `permissions`, on a
\* route mounted with the tokens `required`: allow when the Role holds one of
\* the tokens, or the token "all"
Authorize(permissions, required) ==
  (required \cap permissions # {}) \/ "all" \in permissions

\* The permissions of the Roles the principals of the requests hold: the
\* roles initRoles seeds, a role without permissions and roles of one family
\* of tokens
PrincipalPermissions ==
  {{"all"},
   {"user_read", "user_create", "user_update",
    "colony_read", "colony_create", "colony_update",
    "plot_read", "plot_create", "plot_update",
    "booking_read", "booking_create", "booking_update",
    "city_read", "city_create", "city_update"},
   {"colony_read", "plot_read", "booking_read", "booking_create", "booking_update"},
   {"colony_read", "plot_read", "booking_read"},
   {"colony_read", "plot_read", "booking_read",
    "registry_read", "registry_create", "registry_update"},
   {},
   {"plot_create", "plot_update", "plot_delete"},
   {"user_create", "user_update", "user_delete"},
   {"colony_delete", "settings_update"}}

\* A route that is mounted without its gate
AllowedUngated(op) == op \in Routes[call.router]

\* The gate has allowed a request of the principal on route op of the router
\* the principal's requests go to
Allowed(op) ==
  /\ op \in Routes[call.router]
  /\ Authorize(call.permissions, Required(op))

\* The gate has denied r's request on route op: the boundary answers with an
\* authorization failure, the handler of the route does not run
Denied(r, op) ==
  /\ pc[r] = "idle"
  /\ op \in Routes[call.router]
  /\ ~Authorize(call.permissions, Required(op))
  /\ UNCHANGED <<plotVars, userVars, callVars, propVars>>
  /\ Accept(r, op, NoId, NoBody)
  /\ Done(r, 403, "Not authorized")
  /\ UNCHANGED loc

\* The bodies of the gated requests
GatePlotBody ==
  [NoBody EXCEPT !.plotNumber = "A1", !.colony = 1, !.area = 50,
                 !.pricePerSqFt = 100, !.totalPrice = 1, !.facing = "north"]

GateUserBody == [NoBody EXCEPT !.email = "a@plots.test", !.role = 1]

GateRoleBody == [NoBody EXCEPT !.name = "Agent", !.permissions = {"plot_read"}]

GatePropertyBody == [NoBody EXCEPT !.name = "Green Park", !.colony = 1]

\* The principal `protect` resolved from the credential holds one Role for
\* all the requests of a behaviour, and the requests do not write that Role;
\* the requests of a behaviour go to the routes of one router
InitGate ==
  /\ ColonyStore
  /\ call \in {[fn |-> "authorize", permissions |-> P, router |-> x] :
                 P \in PrincipalPermissions, x \in DOMAIN Routes}
  /\ result = NoResult

\* Every mutating route behind its gate, one request at a time.  The gate is
\* the first middleware of the route: what runs between it and the handler
\* (the upload parser, the validators) reads and writes no document.
GateNext ==
  \/ \E op \in MutatingRoutes : Denied(Client, op)
  \/ /\ Allowed("createPlot")
     /\ PlotCreateFindColony(Client, GatePlotBody)
  \/ /\ Allowed("updatePlot")
     /\ \E id \in PlotIds : PlotUpdate(Client, id, [NoBody EXCEPT !.status = "sold"])
  \/ /\ Allowed("deletePlot")
     /\ \E id \in PlotIds : PlotDeleteFind(Client, id)
  \/ /\ Allowed("createColony")
     /\ ColonyCreate(Client, NoBody)
  \/ /\ Allowed("updateColony")
     /\ \E id \in ColonyIds : ColonyUpdate(Client, id, [NoBody EXCEPT !.totalPlots = 2])
  \/ /\ Allowed("deleteColony")
     /\ \E id \in ColonyIds : ColonyDeleteFind(Client, id)
  \/ /\ Allowed("createUser")
     /\ UserCreateFindEmail(Client, GateUserBody)
  \/ /\ Allowed("updateUser")
     /\ \E id \in UserIds : UserUpdate(Client, id, [NoBody EXCEPT !.role = 2])
  \/ /\ Allowed("deleteUser")
     /\ \E id \in UserIds : UserDeleteFind(Client, id)
  \/ /\ Allowed("createRole")
     /\ RoleCreate(Client, GateRoleBody)
  \/ /\ Allowed("updateRole")
     /\ \E id \in RoleIds :
          RoleUpdateFind(Client, id, [NoBody EXCEPT !.permissions = {"all"}])
  \/ /\ Allowed("deleteRole")
     /\ \E id \in RoleIds : RoleDeleteFind(Client, id)
  \/ /\ Allowed("createProperty")
     /\ PropertyCreate(Client, GatePropertyBody)
  \/ /\ Allowed("updateProperty")
     /\ \E id \in PropertyIds :
          PropertyUpdateFind(Client, id, [NoBody EXCEPT !.name = "Lake View"])
  \/ /\ Allowed("deleteProperty")
     /\ \E id \in PropertyIds : PropertyDeleteFind(Client, id)
  \/ /\ Allowed("updateSettings")
     /\ SettingsUpdate(Client, NoBody)
  \/ PlotCreateFindDuplicate(Client)
  \/ PlotCreateInsert(Client)
  \/ PostSaveFindColony(Client)
  \/ UpdatePlotCountsFind(Client)
  \/ UpdatePlotCountsSave(Client)
  \/ PlotCreateRespond(Client)
  \/ PlotDeleteRemove(Client)
  \/ ColonyDeleteCount(Client)
  \/ ColonyDeleteRemove(Client)
  \/ UserCreateFindRole(Client)
  \/ UserCreateInsert(Client)
  \/ UserDeleteRemove(Client)
  \/ RoleUpdateSave(Client)
  \/ RoleDeleteFindUser(Client)
  \/ RoleDeleteRemove(Client)
  \/ PropertyPopulate(Client)
  \/ PropertyUpdateSave(Client)
  \/ PropertyDeleteRemove(Client)
  \/ ResponseSent(Client)

SpecGate == InitGate /\ [][GateNext]_vars

\* ------------------------------------------------------ the response bodies
\* app.get('/api/v1/health'): res.json({ status: 'OK', message, timestamp,
\* environment, mongoConnection })
Health(r) ==
  /\ pc[r] = "idle"
  /\ UNCHANGED <<plotVars, userVars, callVars, propVars>>
  /\ Accept(r, "health", NoId, NoBody)
  /\ pc' = [pc EXCEPT ![r] = "done"]
  /\ resp' = [resp EXCEPT ![r] =
               [status |-> 200, message |-> "Jaishree Colony Management API is running",
                errors |-> {}, success |-> FALSE,
                keys |-> {"status", "message", "timestamp", "environment",
                          "mongoConnection"}]]
  /\ UNCHANGED loc

\* app.use('*'): res.status(404).json({ success: false, message, timestamp })
RouteNotFound(r) ==
  /\ pc[r] = "idle"
  /\ UNCHANGED <<plotVars, userVars, callVars, propVars>>
  /\ Accept(r, "none", NoId, NoBody)
  /\ pc' = [pc EXCEPT ![r] = "done"]
  /\ resp' = [resp EXCEPT ![r] =
               [status |-> 404, message |-> "Route not found", errors |-> {},
                success |-> FALSE, keys |-> {"success", "message", "timestamp"}]]
  /\ UNCHANGED loc

\* The user and role routes, the health check and the 404 handler, one
\* request at a time
EnvelopeNext ==
  \/ \E b \in UserCreateBodies : UserCreateFindEmail(Client, b)
  \/ UserCreateFindRole(Client)
  \/ UserCreateInsert(Client)
  \/ \E id \in UserIds \cup {BadId}, b \in UserUpdateBodies : UserUpdate(Client, id, b)
  \/ \E id \in UserIds \cup {BadId} : UserDeleteFind(Client, id)
  \/ UserDeleteRemove(Client)
  \/ \E b \in RoleCreateBodies : RoleCreate(Client, b)
  \/ \E id \in RoleIds \cup {BadId} : RoleDeleteFind(Client, id)
  \/ RoleDeleteFindUser(Client)
  \/ RoleDeleteRemove(Client)
  \/ Health(Client)
  \/ RouteNotFound(Client)
  \/ ResponseSent(Client)

SpecEnvelope == Init /\ [][EnvelopeNext]_vars

\* ------------------------------------------------- connectDB (server.js)
\* `let retries = 5`
Retries == 5

\* connectDB() is called without await and app.listen follows: the routine
\* runs beside the request handlers.  at: the statement the routine stands
\* at; attempts: the calls of mongoose.connect made; waits: the timers that
\* have fired; connected: a call of mongoose.connect resolved; exit: the code
\* passed to process.exit
ConnectStart == [type |-> "connectDB", at |-> "while", retries |-> Retries,
                 attempts |-> 0, waits |-> 0, connected |-> FALSE, exit |-> NoNum]

\* process.exit has not been called
Running == result.exit = NoNum

\* `while (retries)`: the body is entered, or the routine falls off its end
ConnectWhile ==
  /\ result.at = "while"
  /\ result' = [result EXCEPT !.at = IF result.retries # 0 THEN "connect" ELSE "returned"]
  /\ UNCHANGED <<plotVars, userVars, propVars, pc, arg, loc, resp, call>>

\* `await mongoose.connect(...)` settles: it resolves and the routine
\* returns, or it rejects (serverSelectionTimeoutMS at the latest) and the
\* catch block is entered
ConnectTry ==
  /\ result.at = "connect"
  /\ \E ok \in BOOLEAN :
       result' = [result EXCEPT !.attempts = @ + 1, !.connected = ok,
                                !.at = IF ok THEN "returned" ELSE "catch"]
  /\ UNCHANGED <<plotVars, userVars, propVars, pc, arg, loc, resp, call>>

\* The catch block without `if (retries === 0) process.exit(1)`
ConnectCatchNoExit ==
  /\ result.at = "catch"
  /\ result' = [result EXCEPT !.retries = @ - 1, !.at = "wait"]
  /\ UNCHANGED <<plotVars, userVars, propVars, pc, arg, loc, resp, call>>

\* The catch block: `retries -= 1`, then process.exit(1) when none is left,
\* otherwise the 5 second timer is set
ConnectCatch ==
  /\ result.at = "catch"
  /\ result' = IF result.retries - 1 = 0
                THEN [result EXCEPT !.retries = 0, !.at = "exited", !.exit = 1]
                ELSE [result EXCEPT !.retries = @ - 1, !.at = "wait"]
  /\ UNCHANGED <<plotVars, userVars, propVars, pc, arg, loc, resp, call>>

\* `await new Promise(resolve => setTimeout(resolve, 5000))`: the timer fires
ConnectTimer ==
  /\ result.at = "wait"
  /\ result' = [result EXCEPT !.waits = @ + 1, !.at = "while"]
  /\ UNCHANGED <<plotVars, userVars, propVars, pc, arg, loc, resp, call>>

\* The statements of connectDB
ConnectStep == ConnectWhile \/ ConnectTry \/ ConnectCatch \/ ConnectTimer

\* The server starts: connectDB has been called, nothing is stored
InitConnect ==
  /\ EmptyStore
  /\ call = [fn |-> "connectDB"]
  /\ result = ConnectStart

\* connectDB beside the requests the listening server answers until the
\* process exits
ConnectNext ==
  \/ ConnectWhile
  \/ ConnectTry
  \/ ConnectCatch
  \/ ConnectTimer
  \/ \E r \in Requests : Running /\ Health(r)
  \/ \E r \in Requests : Running /\ RouteNotFound(r)
  \/ \E r \in Requests : Running /\ ResponseSent(r)

\* The event loop runs every continuation that is ready: a settled promise
\* and a fired timer are resumed however many requests arrive
SpecConnect == InitConnect /\ [][ConnectNext]_vars /\ WF_vars(ConnectStep)

\* ================================================================ properties
\* The plots a Plot collection holds for colony c, counted by status
LiveWith(ps, c, s) ==
  Cardinality({p \in PlotIds : ps[p].live /\ ps[p].colony = c /\ ps[p].status = s})

LiveCounts(ps, c) ==
  [totalPlots |-> Cardinality({p \in PlotIds : ps[p].live /\ ps[p].colony = c}),
   availablePlots |-> LiveWith(ps, c, "available"),
   soldPlots |-> LiveWith(ps, c, "sold"),
   blockedPlots |-> LiveWith(ps, c, "blocked")]

\* r's updatePlotCounts saves, and no other request has written a Plot of the
\* colony since r read the plots
SavesQuietly(r) == pc[r] = "hSave" /\ pc'[r] = "cRespond" /\ loc[r].quiet

\* The client's request op has been answered with status
Answered(op, status) ==
  pc[Client] = "done" /\ arg[Client].op = op /\ resp[Client].status = status

\* C1 as the specification states it: when updatePlotCounts runs for a colony
\* and no Plot of the colony is written between its read and its save, the
\* save leaves the four stored counters equal to the counts of the plots.
C1_Stated ==
  [][\A r \in Requests :
       SavesQuietly(r) =>
         CountersOf(colonies'[loc[r].colony]) = LiveCounts(plots', loc[r].colony)]_vars

\* C2: a Plot create that succeeds has run the recount of the plot's colony,
\* and when it ran with no other request in flight the colony's four stored
\* counters equal the counts of its plots when the response is sent.
C2_CreateRecounts ==
  Answered("createPlot", 201) =>
    /\ loc[Client].colony = arg[Client].body.colony
    /\ CountersOf(colonies[arg[Client].body.colony])
         = LiveCounts(plots, arg[Client].body.colony)

C2_Witness ==
  /\ Answered("createPlot", 201)
  /\ arg[Client].body.status = "blocked"
  /\ colonies[1].totalPlots = 2 /\ colonies[1].blockedPlots = 1
  /\ colonies[1].soldPlots = 1

\* C3 as the specification states it: a Plot delete that succeeds has run the
\* recount of the plot's colony: the colony's four stored counters equal the
\* counts of its remaining plots when the response is sent.
C3_Stated ==
  Answered("deletePlot", 200) =>
    CountersOf(colonies[loc[Client].colony]) = LiveCounts(plots, loc[Client].colony)

\* C4 as the specification states it: after a Plot create or update whose
\* body carries numeric area and pricePerSqFt, the stored totalPrice is the
\* product of the stored area and pricePerSqFt, whatever totalPrice was sent.
C4_Stated ==
  LET b == arg[Client].body
      d == plots[IF arg[Client].op = "createPlot" THEN loc[Client].plot
                                                  ELSE arg[Client].id]
  IN (/\ Answered("createPlot", 201) \/ Answered("updatePlot", 200)
      /\ b.area # NoNum /\ b.pricePerSqFt # NoNum)
       => d.totalPrice = d.area * d.pricePerSqFt

\* The counter identity of colony c: totalPlots is the sum of the three
\* status counters and the plots of the colony that are reserved
CounterIdentity(c) ==
  colonies[c].totalPlots =
    colonies[c].availablePlots + colonies[c].soldPlots + colonies[c].blockedPlots
      + LiveWith(plots, c, "reserved")

C6_Stated ==
  [][/\ (pc[Client] = "idle" /\ Answered("createColony", 201)')
          => CountersOf(colonies'[arg'[Client].id]) = NoCounts
     /\ (pc[Client] = "idle" /\ Answered("updateColony", 200)')
          => CountersOf(colonies'[arg'[Client].id])
               = CountersOf(colonies[arg'[Client].id])]_vars

\* A stored plot carries the plot number and the colony of the body b
SamePair(b) ==
  \E p \in PlotIds :
    plots[p].live /\ plots[p].plotNumber = b.plotNumber /\ plots[p].colony = b.colony

\* C7: with one request at a time, a Plot create whose (plotNumber, colony)
\* pair is that of a stored plot is answered with a failure and stores no
\* plot; a create whose pair no stored plot has is not turned down by the
\* duplicate check, whatever plots of other colonies carry its number, and a
\* create for a stored colony fails for no other reason than its pair.
C7_NumberPerColony ==
  [][LET b == arg[Client].body
     IN /\ (pc[Client] = "cDup" /\ SamePair(b))
             => (/\ pc'[Client] = "done" /\ resp'[Client].status = 400
                 /\ plots' = plots /\ nextPlot' = nextPlot)
        /\ (pc[Client] = "cDup" /\ ~SamePair(b)) => pc'[Client] = "cInsert"
        /\ (pc[Client] = "cRespond" /\ pc'[Client] = "done")
             => (/\ resp'[Client].status = 201
                 /\ plots'[loc[Client].plot].live
                 /\ plots'[loc[Client].plot].plotNumber = b.plotNumber
                 /\ plots'[loc[Client].plot].colony = b.colony)
        /\ (arg[Client].op = "createPlot" /\ pc[Client] = "cInsert")
             => pc'[Client] = "hFind"]_vars

C7_Witness ==
  /\ Answered("createPlot", 201)
  /\ \E p \in PlotIds :
       /\ plots[p].live /\ p # loc[Client].plot
       /\ plots[p].plotNumber = arg[Client].body.plotNumber
       /\ plots[p].colony # arg[Client].body.colony

\* C8: a Role delete whose lookup finds a user of the role is answered with a
\* failure and leaves the roles and the users as they are; a role is removed
\* only when no user references it.
C8_RoleInUseKept ==
  [][/\ (pc[Client] = "rUser" /\ \E u \in UserIds :
                                    users[u].live /\ users[u].role = arg[Client].id)
          => (/\ Answered("deleteRole", 400)'
              /\ roles' = roles /\ users' = users)
     /\ \A x \in RoleIds :
          (roles[x].live /\ ~roles'[x].live)
            => ~\E u \in UserIds : users[u].live /\ users[u].role = x]_vars

C8_Witness ==
  /\ Answered("deleteRole", 400)
  /\ roles[arg[Client].id].live
  /\ \E u \in UserIds : users[u].live /\ users[u].role = arg[Client].id

\* C9: a Colony delete whose count finds a plot of the colony is answered with
\* a failure and leaves the colonies and the plots as they are; a colony is
\* removed only when no plot references it.
C9_ColonyWithPlotsKept ==
  [][/\ (pc[Client] = "kCount" /\ \E p \in PlotIds :
                                     plots[p].live /\ plots[p].colony = arg[Client].id)
          => (/\ Answered("deleteColony", 400)'
              /\ colonies' = colonies /\ plots' = plots)
     /\ \A c \in ColonyIds :
          (colonies[c].live /\ ~colonies'[c].live)
            => ~\E p \in PlotIds : plots[p].live /\ plots[p].colony = c]_vars

C9_Witness ==
  /\ Answered("deleteColony", 400)
  /\ colonies[arg[Client].id].live
  /\ \E p \in PlotIds : plots[p].live /\ plots[p].colony = arg[Client].id

C11_Stated ==
  \A r \in Requests :
    (pc[r] = "done" /\ arg[r].op = "createPlot" /\ loc[r].plot # NoId)
      => resp[r].status = 201

\* C12: within a Plot create the plot is persisted with its totalPrice
\* derived, the recount runs only once the plot is persisted, and a recount
\* that fails leaves the plots as they are: the created plot stays stored.
C12_CreateOrder ==
  [][\A r \in Requests :
       /\ (pc[r] = "cInsert" /\ pc'[r] = "hFind")
            => (/\ plots'[nextPlot].live /\ ~plots[nextPlot].live
                /\ plots'[nextPlot].totalPrice
                     = plots'[nextPlot].area * plots'[nextPlot].pricePerSqFt)
       /\ (pc[r] \in {"hFind", "hRead", "hSave"})
            => (loc[r].plot # NoId /\ plots[loc[r].plot].live)
       /\ (pc[r] = "hSave" /\ pc'[r] = "done")
            => (/\ resp'[r].status = 500
                /\ plots' = plots /\ plots'[loc[r].plot].live)]_vars

C12_Witness ==
  \E r \in Requests :
    /\ pc[r] = "done" /\ arg[r].op = "createPlot" /\ resp[r].status = 500
    /\ loc[r].plot # NoId /\ plots[loc[r].plot].live
    /\ ~colonies[loc[r].colony].live

C14_Stated ==
  /\ Answered("createPlot", 201)
       => CountersOf(colonies[arg[Client].body.colony])
            = LiveCounts(plots, arg[Client].body.colony)
  /\ Answered("deletePlot", 200)
       => CountersOf(colonies[loc[Client].colony])
            = LiveCounts(plots, loc[Client].colony)

\* C15 as the specification states it: when Plot creates on one colony
\* interleave, every recount writes back its own snapshot, so that the stored
\* counters are the snapshot of the recount that saved last.
C15_Stated ==
  [][\A r \in Requests :
       (pc[r] = "hSave" /\ pc'[r] = "cRespond")
         => CountersOf(colonies'[loc[r].colony]) = loc[r].snap]_vars

\* The rules of the request the client has sent
RulesOf(a) ==
  IF a.op = "createPlot" THEN PlotCreateRules(a.body) ELSE PlotUpdateRules(a.id, a.body)

\* C16: a Plot create or update that breaks a field rule is answered 400 with
\* one record {field, message, value, location} for every broken rule, before
\* any document is read or written: colonies, plots and the handler's locals
\* are as they were; a request that breaks no rule is not turned down by the
\* validation.
C16_ValidationFirst ==
  [][(pc[Client] = "idle" /\ arg'[Client].op \in {"createPlot", "updatePlot"})
       => LET broken == {x \in RulesOf(arg'[Client]) : x.broken}
          IN /\ broken # {}
                  => (/\ pc'[Client] = "done" /\ resp'[Client].status = 400
                      /\ Cardinality(resp'[Client].errors) = Cardinality(broken)
                      /\ \A x \in broken :
                           [field |-> x.field, message |-> x.message, value |-> x.value,
                            location |-> x.location] \in resp'[Client].errors
                      /\ colonies' = colonies /\ plots' = plots /\ loc' = loc
                      /\ nextPlot' = nextPlot)
             /\ broken = {} => resp'[Client].message # "Validation failed"]_vars

C16_Witness ==
  /\ Answered("createPlot", 400)
  /\ Cardinality(resp[Client].errors) = 5
  /\ Cardinality({e.field : e \in resp[Client].errors}) = 3

\* C17 as the specification states it: a request whose path identifier or
\* colony reference is not 24 hexadecimal digits is answered with the 400 of
\* the validation.
C17_Stated ==
  (/\ pc[Client] = "done"
   /\ \/ arg[Client].id = BadId
      \/ (arg[Client].op = "createPlot" /\ arg[Client].body.colony = BadId))
    => (resp[Client].status = 400 /\ resp[Client].message = "Validation failed")

\* The digits of a string, in their order
DigitsOf(chars) == SelectSeq(chars, IsDigit)

\* C18: sanitizePhone returns, for a string whose digits are d, "+91" and d
\* when d has 10 digits, "+" and d when d has 11 to 15 digits, and null
\* otherwise; null for every value that is not a string; and for the three
\* numbers of the documentation the results the documentation gives.
C18_SanitizePhone ==
  (call.fn = "sanitizePhone" /\ result.type # "none") =>
    LET in == call.phone
        d == DigitsOf(in.chars)
    IN /\ in.type # "string" => result = JsNull
       /\ (in.type = "string" /\ Len(d) = 10)
            => result = JsString(<<"+", "9", "1">> \o d)
       /\ (in.type = "string" /\ Len(d) \in 11..15) => result = JsString(<<"+">> \o d)
       /\ (in.type = "string" /\ Len(d) \notin 10..15) => result = JsNull
       /\ in = JsString(<<"9", "8", "7", "6", "5", "4", "3", "2", "1", "0">>)
            => result = JsString(<<"+", "9", "1", "9", "8", "7", "6", "5", "4", "3",
                                   "2", "1", "0">>)
       /\ in = JsString(<<"1", "2", "3", "4", "5">>) => result = JsNull
       /\ in = JsString(<<"+", "1", "4", "1", "5", "5", "5", "5", "2", "6", "7", "1">>)
            => result = JsString(<<"+", "1", "4", "1", "5", "5", "5", "5", "2", "6",
                                   "7", "1">>)

C18_Witness ==
  /\ call.fn = "sanitizePhone"
  /\ call.phone = JsString(<<"9", "8", "7", "6", "5", "4", "3", "2", "1", "0">>)
  /\ result = JsString(<<"+", "9", "1", "9", "8", "7", "6", "5", "4", "3", "2", "1",
                         "0">>)

\* C19: a list request over total matches with page size limit >= 1 reports
\* total, reports as pages the least number of pages of limit records that
\* hold total records, and returns on page p the matches at the positions
\* (p-1)*limit .. min(p*limit, total)-1 of the sorted result, at most limit of
\* them; with 25 matches and limit 10 the pages are 3 and hold 10, 10 and 5.
C19_Pagination ==
  (call.fn = "list" /\ result.type # "none") =>
    LET total == Len(call.sorted)
        p == call.page
        limit == call.limit
        from == (p - 1) * limit
        to == (IF p * limit < total THEN p * limit ELSE total) - 1
    IN /\ result.pagination.total = total
       /\ result.pagination.pages * limit >= total
       /\ (result.pagination.pages - 1) * limit < total \/ result.pagination.pages = 0
       /\ Len(result.records) = (IF to >= from THEN to - from + 1 ELSE 0)
       /\ \A k \in 1..Len(result.records) : result.records[k] = call.sorted[from + k]
       /\ Len(result.records) <= limit
       /\ (total = 25 /\ limit = 10)
            => (/\ result.pagination.pages = 3
                /\ p \in {1, 2} => Len(result.records) = 10
                /\ p = 3 => Len(result.records) = 5)

C19_Witness ==
  /\ call.fn = "list" /\ Len(call.sorted) = 25 /\ call.limit = 10 /\ call.page = 3
  /\ result.type = "page"
  /\ result.pagination.pages = 3 /\ Len(result.records) = 5

\* --------------------------------------------------------------------- C20
\* The documents of the store
Store == <<plotVars, userVars, propVars>>

\* The Role of the principal holds one of the tokens the route of r's request
\* is mounted with, or the token "all"
Holds(r) ==
  \E t \in Required(arg[r].op) \cup {"all"} : t \in call.permissions

\* C20: on every mutating route (POST, PUT, DELETE on users, roles, plots,
\* colonies, properties and settings) the handler runs, and the store is
\* written, only for a request the gate allowed: while a request is in its
\* handler or answered by it, the principal's Role holds one of the tokens of
\* the route or the token "all"; every step that writes a document belongs to
\* such a request; and the step that answers a denied request writes none.
C20_GateFirst ==
  /\ [](arg[Client].op # "none" /\ resp[Client].status # 403 => Holds(Client))
  /\ [][/\ Store' # Store => arg'[Client].op \in MutatingRoutes /\ Holds(Client)'
        /\ resp'[Client].status = 403 =>
             Store' = Store /\ ~Holds(Client)' /\ pc[Client] = "idle"]_vars

\* A principal whose Role holds plot_create and not "all" has created plot 1;
\* its request to delete the plot has been denied and the plot is stored
C20_Witness ==
  /\ "all" \notin call.permissions
  /\ "plot_create" \in call.permissions
  /\ plots[1].live
  /\ colonies[1].totalPlots = 1
  /\ arg[Client].op = "deletePlot"
  /\ resp[Client].status = 403

\* --------------------------------------------------------------------- C21
\* The body x of a response is the uniform envelope: it has a success member
\* that is true exactly when the status is 2xx; a success carries data, a
\* failure carries a message
Envelope(x) ==
  /\ "success" \in x.keys
  /\ x.success <=> x.status \in 200..299
  /\ IF x.success THEN "data" \in x.keys ELSE "message" \in x.keys

\* C21: on every path of every endpoint the response is the uniform envelope:
\* {success: true, message?, data} for a success, {success: false, message,
\* errors?} for a failure, success true exactly for a 2xx status.
C21_Stated ==
  \A r \in Requests : pc[r] = "done" => Envelope(resp[r])

\* --------------------------------------------------------------------- C22
\* v with every string leaf, at any depth, trimmed and escaped, and nothing
\* else changed
RECURSIVE Cleaned(_)
Cleaned(v) ==
  CASE v.type = "string" -> JsString(Escape(Trim(v.chars)))
    [] v.type = "array" -> JsArray([i \in 1..Len(v.items) |-> Cleaned(v.items[i])])
    [] v.type = "object" ->
         JsObject([i \in 1..Len(v.members) |->
                    Member(v.members[i].key, Cleaned(v.members[i].value))])
    [] OTHER -> v

\* C22: sanitizeRequest replaces req.body by a value of the same shape in
\* which every string leaf, a property value or an element of an array at any
\* depth, is trimmed and HTML-escaped and every other leaf is unchanged.
C22_Stated ==
  result.type = "body" => result.body = Cleaned(call.body)

\* --------------------------------------------------------------------- C23
\* The Plot field rules
FieldRules(doc) ==
  /\ doc.area >= MinArea /\ doc.area <= MaxArea
  /\ doc.pricePerSqFt >= MinPrice /\ doc.pricePerSqFt <= MaxPrice
  /\ doc.roadWidth >= MinRoadWidth /\ doc.roadWidth <= MaxRoadWidth
  /\ doc.facing \in Facings
  /\ doc.status \in PlotStatuses

\* C23: in every state reachable by Plot create and Plot update requests every
\* stored Plot satisfies the field rules (area in [50, 100000], pricePerSqFt in
\* [100, 50000], roadWidth in [0, 200], facing one of the 8 compass values,
\* status one of the 4 statuses), and a request that would violate one of them
\* is answered with a validation failure and changes nothing.
C23_Stated ==
  /\ \A p \in PlotIds : plots[p].live => FieldRules(plots[p])
  /\ \A r \in Requests :
       (/\ pc[r] = "done"
        /\ arg[r].op = "updatePlot"
        /\ plots[arg[r].id].live
        /\ ~FieldRules(UpdatedPlot(plots[arg[r].id], arg[r].body))) => resp[r].status = 400

\* --------------------------------------------------------------------- C24
\* A run of the routine has ended
RunEnded == result.type = "find" /\ result.at > Len(Seeds(call.fn))

\* C24: sequential runs of initRoles and initCities keep the seeded
\* identities unique: when a run has ended the collection holds exactly one
\* document of every seeded identity that it did not hold when the first run
\* began, and at no time has a run added a document of an identity the
\* collection held (the documents it held are as they were, the runs only
\* create), or a second document of an identity it created.
C24_SeedsOnce ==
  /\ \A k \in Identities(call.fn) :
       /\ result.created[k] <= 1
       /\ call.start[k] > 0 => result.created[k] = 0
  /\ RunEnded =>
       \A i \in 1..Len(Seeds(call.fn)) :
         call.start[Seeds(call.fn)[i]] + result.created[Seeds(call.fn)[i]]
           = IF call.start[Seeds(call.fn)[i]] = 0 THEN 1 ELSE call.start[Seeds(call.fn)[i]]

\* The second run of initCities has ended on a collection that held no
\* Mumbai, one Pune in Maharashtra and Pune in Karnataka when the first began
C24_Witness ==
  /\ call.fn = "initCities"
  /\ RunEnded
  /\ result.runs = 2
  /\ call.start[[name |-> "Mumbai", state |-> "Maharashtra"]] = 0
  /\ call.start[[name |-> "Pune", state |-> "Maharashtra"]] = 1
  /\ call.start[[name |-> "Pune", state |-> "Karnataka"]] = 2
  /\ result.created[[name |-> "Mumbai", state |-> "Maharashtra"]] = 1
  /\ result.created[[name |-> "Pune", state |-> "Maharashtra"]] = 0

\* --------------------------------------------------------------------- C25
\* C25: in every state reachable under any interleaving of Plot create and
\* Plot update requests no two stored Plots of the same Colony have the same
\* plotNumber: the duplicate check runs before the mutating store call and a
\* conflicting mutation is never attempted.
C25_Stated ==
  \A p, q \in PlotIds :
    (/\ plots[p].live /\ plots[q].live
     /\ plots[p].colony = plots[q].colony
     /\ plots[p].plotNumber = plots[q].plotNumber) => p = q

\* --------------------------------------------------------------------- C26
\* C26: in every state reachable by create and update requests, an update
\* that supplies only area or only pricePerSqFt included, the totalPrice of
\* every stored Plot is the product of its stored area and pricePerSqFt.
C26_Stated ==
  \A p \in PlotIds :
    plots[p].live => plots[p].totalPrice = plots[p].area * plots[p].pricePerSqFt

\* --------------------------------------------------------------------- C27
\* The stored plots of colony c that pass the filters of q
Listed(c, q) ==
  {p \in PlotIds :
     /\ plots[p].live /\ plots[p].colony = c
     /\ (q.status = NoStr \/ plots[p].status = q.status)
     /\ (q.facing = NoStr \/ plots[p].facing = q.facing)
     /\ (q.minPrice = NoNum \/ plots[p].totalPrice >= q.minPrice)
     /\ (q.maxPrice = NoNum \/ plots[p].totalPrice <= q.maxPrice)
     /\ (q.minArea = NoNum \/ plots[p].area >= q.minArea)
     /\ (q.maxArea = NoNum \/ plots[p].area <= q.maxArea)}

\* colonyId is 24 hexadecimal digits and every filter sent is well-formed
WellFormed(c, q) ==
  /\ c # NoId /\ c # BadId
  /\ (q.status = NoStr \/ q.status \in PlotStatuses)
  /\ (q.facing = NoStr \/ q.facing \in Facings)

\* C27: GET /plots/colony/:colonyId with a well-formed colonyId and
\* well-formed filters is answered with success and exactly the Plots of the
\* colony that match the filters; it is answered with a validation failure
\* only when colonyId or a filter is malformed.
C27_Stated ==
  result.type = "response" =>
    IF WellFormed(call.colonyId, call.query)
    THEN result.status = 200 /\ result.plots = Listed(call.colonyId, call.query)
    ELSE result.status = 400

\* --------------------------------------------------------------------- C28
\* C28: under every interleaving of plot creates, plot updates and colony
\* deletes, every stored Plot references a Colony that exists in the store.
C28_Stated == \A p \in PlotIds : plots[p].live => colonies[plots[p].colony].live

\* --------------------------------------------------------------------- C29
\* C29: under every interleaving of user creates, user updates and role
\* deletes, every stored User references a Role that exists in the store.
C29_Stated == \A u \in UserIds : users[u].live => roles[users[u].role].live

\* --------------------------------------------------------------------- C30
\* connectDB has ended: it returned or the process exited
ConnectEnded == result.at \in {"returned", "exited"}

\* At most 5 attempts; a timer has fired between every failed attempt and the
\* next; the routine returns only connected; the process exits only with
\* code 1 after 5 failed attempts
ConnectSafe ==
  /\ result.attempts <= 5
  /\ result.at = "connect" => result.waits = result.attempts
  /\ result.at # "connect" => result.attempts \in {result.waits, result.waits + 1}
  /\ result.at = "returned" => result.connected
  /\ result.connected => result.at = "returned"
  /\ result.at = "exited" <=> result.exit # NoNum
  /\ result.at = "exited" =>
       result.exit = 1 /\ result.attempts = 5 /\ result.waits = 4 /\ ~result.connected

\* Once connectDB has ended it does nothing more
ConnectStops == ConnectEnded => result' = result

\* C30: connectDB always terminates: at most 5 attempts are made, it returns
\* right after the first attempt that succeeds, it waits between a failed
\* attempt and the next, and after the 5th failure in a row the process
\* exits with code 1 and no 6th attempt is made.
C30_Terminates == []ConnectSafe /\ [][ConnectStops]_vars /\ <>ConnectEnded

\* The 5th attempt has failed and the process has exited
C30_Witness ==
  result.at = "exited" /\ result.attempts = 5 /\ result.waits = 4 /\ result.exit = 1
====
